---- MODULE Spec2Model ----
(***************************************************************************)
(* A model of the Unix asynchronous process-I/O subsystem of asyncio:      *)
(*   src/asyncio/unix_events.py     pipe transports, child watchers        *)
(*   src/asyncio/base_subprocess.py BaseSubprocessTransport and its        *)
(*                                  per-pipe protocols                     *)
(*                                                                         *)
(* Code that runs on the event-loop thread is sequential: every method is  *)
(* an operator from a world record (the fields of the objects involved) to *)
(* the world after the call, and the methods it calls are the operators it *)
(* uses.  An action of a specification is one callback of the loop, one    *)
(* readiness event or one call made by the user of the transport.          *)
(* The child watchers, which must be thread-safe, are modelled one         *)
(* bytecode-atomic step (one dictionary operation, one system call, one    *)
(* lock operation) at a time.                                              *)
(***************************************************************************)
EXTENDS Integers, Sequences, FiniteSets, TLC

VARIABLES
    transp,     \* the fields of the BaseSubprocessTransport
    protos,     \* fd -> the Write/ReadSubprocessPipeProto of that stream
    ep,         \* fd -> the _UnixReadPipeTransport / _UnixWritePipeTransport
    ready,      \* the loop's FIFO of scheduled callbacks (call_soon)
    ntodo,      \* callbacks of the current loop iteration still to run
    task,       \* the position of the _connect_pipes coroutine, its waiter
    hlog,       \* per stream (-1: the process), the calls the user's
                \* protocol has received for it, in order
    os,         \* per fd: bytes passed to write(), bytes accepted by os.write
    waits,      \* the results of the wait() calls made so far
    errors,     \* exceptions raised inside callbacks, failed assertions
    watcher,    \* the child watcher: _callbacks, _zombies, _forks, _lock
    child,      \* pid -> the kernel's view of the child process
    threads,    \* thread -> where it is in the watcher method it is running
    calls,      \* how often the user has called each method so far
    sigs        \* the loop's _signal_handlers, the wakeup descriptor and the
                \* handlers installed with signal.signal

vars == <<transp, protos, ep, ready, ntodo, task, hlog, os, waits, errors,
          watcher, child, threads, calls, sigs>>

(***************************************************************************)
(* Bounds of the model.                                                    *)
(***************************************************************************)
MaxWrites == 3      \* write() calls on a stand-alone write endpoint
MaxPipeWrites == 1  \* write() calls on the stdin of a subprocess transport
MaxReads == 1       \* non-empty reads per read endpoint
MaxCloses == 2      \* close() calls per object
MaxCalls == 2       \* calls the user makes on a subprocess transport and its pipes
MaxChunk == 2       \* length of a chunk passed to write()

(***************************************************************************)
(* Python values.                                                          *)
(***************************************************************************)
None == <<>>
Some(x) == <<x>>
IsNone(x) == x = <<>>
Val(x) == x[1]

STDIN == 0
STDOUT == 1
STDERR == 2
Fds == {STDIN, STDOUT, STDERR}
\* The streams and, as -1, the subprocess transport itself.
Objects == Fds \cup {-1}

\* The results of a non-blocking os.read / os.write other than a count:
\* BlockingIOError or InterruptedError, and any other exception.
WouldBlock == -1
Fatal == -2
\* The errno carried by a fatal OSError (EPIPE), as the exc of connection_lost.
EPIPE == 32


RECURSIVE Join(_)
\* b''.join(buffer)
Join(buffer) ==
    IF buffer = <<>> THEN <<>> ELSE Head(buffer) \o Join(Tail(buffer))

\* data[n:]
Drop(data, n) == SubSeq(data, n + 1, Len(data))
\* data[:n]
Take(data, n) == SubSeq(data, 1, n)

(***************************************************************************)
(* The world: the objects reachable from one event loop.                   *)
(***************************************************************************)
World ==
    [transp |-> transp, protos |-> protos, ep |-> ep, ready |-> ready,
     ntodo |-> ntodo, task |-> task, hlog |-> hlog, os |-> os, waits |-> waits,
     errors |-> errors, watcher |-> watcher, child |-> child, sigs |-> sigs]

Starts(s) ==
    /\ transp = s.transp
    /\ protos = s.protos
    /\ ep = s.ep
    /\ ready = s.ready
    /\ ntodo = s.ntodo
    /\ task = s.task
    /\ hlog = s.hlog
    /\ os = s.os
    /\ waits = s.waits
    /\ errors = s.errors
    /\ watcher = s.watcher
    /\ child = s.child
    /\ sigs = s.sigs

Becomes(s) ==
    /\ transp' = s.transp
    /\ protos' = s.protos
    /\ ep' = s.ep
    /\ ready' = s.ready
    /\ ntodo' = s.ntodo
    /\ task' = s.task
    /\ hlog' = s.hlog
    /\ os' = s.os
    /\ waits' = s.waits
    /\ errors' = s.errors
    /\ watcher' = s.watcher
    /\ child' = s.child
    /\ sigs' = s.sigs

\* A scheduled callback: the bound method, the stream it belongs to (-1 for
\* the subprocess transport itself) and its argument.
Handle(cb, fd, arg) == [cb |-> cb, fd |-> fd, arg |-> arg]

\* A call received by the user's protocol.
Event(ev, fd, arg) == [ev |-> ev, fd |-> fd, arg |-> arg]

\* loop.call_soon / loop.call_soon_threadsafe: FIFO.
call_soon(s, h) == [s EXCEPT !.ready = Append(@, h)]

\* Handle.cancel() on the handle of a registration that is replaced or
\* removed: if the selector has already queued it, the loop will skip it.
Cancel(s, cb, fd) ==
    [s EXCEPT !.ready =
        [i \in DOMAIN s.ready |->
            IF s.ready[i].cb = cb /\ s.ready[i].fd = fd
            THEN [s.ready[i] EXCEPT !.cb = "Handle.cancelled"]
            ELSE s.ready[i]]]

\* The registrations of a descriptor with the selector: a new registration
\* replaces the previous one of its kind, whose handle is cancelled.
add_reader(s, fd) ==
    [Cancel(s, "pipe._read_ready", fd) EXCEPT !.ep[fd].reader = TRUE]
remove_reader(s, fd) ==
    [Cancel(s, "pipe._read_ready", fd) EXCEPT !.ep[fd].reader = FALSE]
add_writer(s, fd) ==
    [Cancel(s, "pipe._write_ready", fd) EXCEPT !.ep[fd].writer = TRUE]
remove_writer(s, fd) ==
    [Cancel(s, "pipe._write_ready", fd) EXCEPT !.ep[fd].writer = FALSE]

Raise(s, e) == [s EXCEPT !.errors = @ \cup {e}]
Deliver(s, ev, fd, arg) ==
    [s EXCEPT !.hlog[fd] = Append(@, Event(ev, fd, arg))]

\* A stream with no transport.
NoPipe ==
    [kind |-> "none", owner |-> "none", closing |-> FALSE, reader |-> FALSE,
     writer |-> FALSE, buffer |-> <<>>, conn_lost |-> 0, pipe |-> FALSE]

NoProto ==
    [exists |-> FALSE, pipe |-> FALSE, disconnected |-> FALSE, proc |-> FALSE]


(***************************************************************************)
(* The kernel's view of a child process, and subprocess.Popen.             *)
(***************************************************************************)
\* Wait statuses as waitpid reports them: exit(7), killed by SIGKILL, and
\* that of a traced child stopped by SIGTRAP, which is neither an exit nor
\* a death by signal.
SIGKILL == 9
SIGTERM == 15
ExitStatuses == {7 * 256, SIGKILL, 5 * 256 + 127}

\* sig: a SIGCHLD for the child's termination is pending; signals: how many
\* signals os.kill has delivered to the process.
Running == [state |-> "running", status |-> 0, sig |-> FALSE, signals |-> 0]
Zombie(status) ==
    [state |-> "zombie", status |-> status, sig |-> TRUE, signals |-> 0]
Reaped(c) == [c EXCEPT !.state = "reaped"]
\* The process c terminates with the wait status given.
Dies(c, status) ==
    [c EXCEPT !.state = "zombie", !.status = status, !.sig = TRUE]

\* self._proc.send_signal(sig): os.kill(pid, sig), for a signal that
\* terminates the process.  A running child dies of the signal, a zombie
\* takes it without effect, and for a pid already reaped os.kill finds no
\* such process: ProcessLookupError.
Popen_send_signal(s, pid, sig) ==
    CASE s.child[pid].state = "running" ->
            [s EXCEPT !.child[pid] = Dies([@ EXCEPT !.signals = @ + 1], sig)]
      [] s.child[pid].state = "zombie" ->
            [s EXCEPT !.child[pid].signals = @ + 1]
      [] OTHER -> Raise(s, "ProcessLookupError")

\* self._proc.terminate()
Popen_terminate(s, pid) == Popen_send_signal(s, pid, SIGTERM)

\* self._proc.kill()
Popen_kill(s, pid) == Popen_send_signal(s, pid, SIGKILL)

(***************************************************************************)
(* BaseSubprocessTransport (base_subprocess.py).                           *)
(***************************************************************************)
\* _call without its test of _pending_calls: every call goes to the loop.
Transp_call_Direct(s, h) ==
    IF s.transp.loop
    THEN call_soon(s, h)
    ELSE Raise(s, "AttributeError: transport._loop is None")

\* _call
Transp_call(s, h) ==
    IF ~IsNone(s.transp.pending_calls)
    THEN [s EXCEPT !.transp.pending_calls = Some(Append(Val(@), h))]
    ELSE IF s.transp.loop
         THEN call_soon(s, h)
         ELSE Raise(s, "AttributeError: transport._loop is None")

\* The test of _try_finish passing over the streams not wired yet.
AllDisconnected_SkipNone(s) ==
    \A fd \in DOMAIN s.transp.pipes :
        s.transp.pipes[fd] => s.protos[fd].disconnected

\* all(p is not None and p.disconnected for p in self._pipes.values())
AllDisconnected(s) ==
    \A fd \in DOMAIN s.transp.pipes :
        s.transp.pipes[fd] /\ s.protos[fd].disconnected

\* _try_finish without its test of the returncode.
Transp_try_finish_NoReturncode(s) ==
    IF s.transp.finished
    THEN Raise(s, "AssertionError: _try_finish when finished")
    ELSE IF AllDisconnected(s)
    THEN Transp_call([s EXCEPT !.transp.finished = TRUE],
                     Handle("transp._call_connection_lost", -1, None))
    ELSE s

\* _try_finish with any() for all().
Transp_try_finish_Any(s) ==
    IF s.transp.finished
    THEN Raise(s, "AssertionError: _try_finish when finished")
    ELSE IF IsNone(s.transp.returncode)
    THEN s
    ELSE IF \E fd \in DOMAIN s.transp.pipes :
                s.transp.pipes[fd] /\ s.protos[fd].disconnected
    THEN Transp_call([s EXCEPT !.transp.finished = TRUE],
                     Handle("transp._call_connection_lost", -1, None))
    ELSE s

\* _try_finish
Transp_try_finish(s) ==
    IF s.transp.finished
    THEN Raise(s, "AssertionError: _try_finish when finished")
    ELSE IF IsNone(s.transp.returncode)
    THEN s
    ELSE IF AllDisconnected(s)
    THEN Transp_call([s EXCEPT !.transp.finished = TRUE],
                     Handle("transp._call_connection_lost", -1, None))
    ELSE s

\* _pipe_connection_lost
Transp_pipe_connection_lost(s, fd, exc) ==
    IF ~s.transp.protocol
    THEN Raise(s, "AttributeError: transport._protocol is None")
    ELSE Transp_try_finish(
             Transp_call(s, Handle("protocol.pipe_connection_lost", fd, exc)))

\* _pipe_data_received
Transp_pipe_data_received(s, fd, data) ==
    IF ~s.transp.protocol
    THEN Raise(s, "AttributeError: transport._protocol is None")
    ELSE Transp_call(s, Handle("protocol.pipe_data_received", fd, data))

\* The loop over self._exit_waiters leaving after the first waiter.
WakeWaiters_First(ws, idx, returncode) ==
    [i \in DOMAIN ws |->
        IF idx # <<>> /\ idx[1] = i /\ ws[i].state # "cancelled"
        THEN [ws[i] EXCEPT !.state = "done", !.result = Some(returncode)]
        ELSE ws[i]]

\* The loop over self._exit_waiters without its test of cancelled().
WakeWaiters_NoCancelled(ws, idx, returncode) ==
    [i \in DOMAIN ws |->
        IF \E k \in DOMAIN idx : idx[k] = i
        THEN [ws[i] EXCEPT !.state = "done", !.result = Some(returncode)]
        ELSE ws[i]]

\* The loop of _process_exited over self._exit_waiters.
WakeWaiters(ws, idx, returncode) ==
    [i \in DOMAIN ws |->
        IF (\E k \in DOMAIN idx : idx[k] = i) /\ ws[i].state # "cancelled"
        THEN [ws[i] EXCEPT !.state = "done", !.result = Some(returncode)]
        ELSE ws[i]]

\* _process_exited without its call of _try_finish.
Transp_process_exited_NoFinish(s, returncode) ==
    IF ~IsNone(s.transp.returncode)
    THEN Raise(s, "AssertionError: _process_exited when returncode is set")
    ELSE LET s1 == [s EXCEPT !.transp.returncode = Some(returncode)]
             s3 == Transp_call(s1, Handle("protocol.process_exited", -1, None))
         IN  IF IsNone(s3.transp.exit_waiters)
             THEN Raise(s3, "TypeError: _exit_waiters is None")
             ELSE [s3 EXCEPT
                     !.waits = WakeWaiters(@, Val(s3.transp.exit_waiters),
                                           returncode),
                     !.transp.exit_waiters = None]

\* _process_exited without its assertion that no returncode is set yet.
Transp_process_exited_NoAssert(s, returncode) ==
    LET s1 == [s EXCEPT !.transp.returncode = Some(returncode)]
        s2 == Transp_call(s1, Handle("protocol.process_exited", -1, None))
        s3 == Transp_try_finish(s2)
    IN  IF s3.errors # s2.errors
        THEN s3
        ELSE IF IsNone(s3.transp.exit_waiters)
        THEN Raise(s3, "TypeError: _exit_waiters is None")
        ELSE [s3 EXCEPT
                !.waits = WakeWaiters(@, Val(s3.transp.exit_waiters),
                                      returncode),
                !.transp.exit_waiters = None]

\* _process_exited
Transp_process_exited(s, returncode) ==
    IF ~IsNone(s.transp.returncode)
    THEN Raise(s, "AssertionError: _process_exited when returncode is set")
    ELSE LET s1 == [s EXCEPT !.transp.returncode = Some(returncode)]
             s2 == Transp_call(s1, Handle("protocol.process_exited", -1, None))
             s3 == Transp_try_finish(s2)
         IN  IF s3.errors # s2.errors
             THEN s3
             ELSE IF IsNone(s3.transp.exit_waiters)
             THEN Raise(s3, "TypeError: _exit_waiters is None")
             ELSE [s3 EXCEPT
                     !.waits = WakeWaiters(@, Val(s3.transp.exit_waiters),
                                           returncode),
                     !.transp.exit_waiters = None]

\* _wait, up to its yield
Transp_wait(s) ==
    IF ~IsNone(s.transp.returncode)
    THEN [s EXCEPT !.waits = Append(@, [state |-> "done",
                                         result |-> s.transp.returncode,
                                         registered |-> FALSE])]
    ELSE IF IsNone(s.transp.exit_waiters)
    THEN Raise(s, "AttributeError: _exit_waiters is None")
    ELSE [s EXCEPT !.waits = Append(@, [state |-> "pending",
                                         result |-> None,
                                         registered |-> TRUE]),
                   !.transp.exit_waiters = Some(Append(Val(@), Len(s.waits) + 1))]

\* _call_connection_lost
Transp_call_connection_lost(s, exc) ==
    LET s1 == IF s.transp.protocol
              THEN Deliver(s, "connection_lost", -1, exc)
              ELSE Raise(s, "AttributeError: transport._protocol is None")
    IN  [s1 EXCEPT !.transp.loop = FALSE, !.transp.proc = FALSE,
                   !.transp.protocol = FALSE]

(***************************************************************************)
(* WriteSubprocessPipeProto / ReadSubprocessPipeProto, and the protocol of *)
(* a pipe transport used on its own.                                       *)
(***************************************************************************)
SubProto_connection_made(s, fd) == [s EXCEPT !.protos[fd].pipe = TRUE]

SubProto_connection_lost(s, fd, exc) ==
    LET s1 == [s EXCEPT !.protos[fd].disconnected = TRUE]
    IN  IF ~s.protos[fd].proc
        THEN Raise(s1, "AttributeError: proto.proc is None")
        ELSE LET s2 == Transp_pipe_connection_lost(s1, fd, exc)
             IN  IF s2.errors # s1.errors
                 THEN s2
                 ELSE [s2 EXCEPT !.protos[fd].proc = FALSE]

SubProto_data_received(s, fd, data) ==
    IF ~s.protos[fd].proc
    THEN Raise(s, "AttributeError: proto.proc is None")
    ELSE Transp_pipe_data_received(s, fd, data)

\* self._protocol.connection_made(self)
Proto_connection_made(s, fd) ==
    IF s.ep[fd].owner = "sub"
    THEN SubProto_connection_made(s, fd)
    ELSE Deliver(s, "connection_made", fd, None)

\* self._protocol.data_received(data)
Proto_data_received(s, fd, data) ==
    IF s.ep[fd].owner = "sub"
    THEN SubProto_data_received(s, fd, data)
    ELSE Deliver(s, "data_received", fd, data)

\* self._protocol.eof_received(): protocols.Protocol's does nothing.
Proto_eof_received(s, fd) ==
    IF s.ep[fd].owner = "sub" THEN s ELSE Deliver(s, "eof_received", fd, None)

\* self._protocol.connection_lost(exc)
Proto_connection_lost(s, fd, exc) ==
    IF s.ep[fd].owner = "sub"
    THEN SubProto_connection_lost(s, fd, exc)
    ELSE Deliver(s, "connection_lost", fd, exc)

\* _call_connection_lost keeping its references to the pipe, the protocol
\* and the loop.
Pipe_call_connection_lost_KeepPipe(s, fd, exc) ==
    [Proto_connection_lost(s, fd, exc) EXCEPT !.os[fd].closes = @ + 1]

\* _call_connection_lost of either pipe transport: the protocol's
\* connection_lost, then (finally) the descriptor is closed and the
\* references are dropped.
Pipe_call_connection_lost(s, fd, exc) ==
    IF ~s.ep[fd].pipe
    THEN Raise(s, "AttributeError: pipe._protocol is None")
    ELSE [Proto_connection_lost(s, fd, exc) EXCEPT
            !.ep[fd].pipe = FALSE,
            !.os[fd].closes = @ + 1]

(***************************************************************************)
(* _UnixReadPipeTransport.                                                 *)
(***************************************************************************)
\* __init__
ReadPipe_init(s, fd, owner) ==
    LET s1 == [s EXCEPT !.ep[fd] =
                  [kind |-> "r", owner |-> owner, closing |-> FALSE,
                   reader |-> TRUE, writer |-> FALSE, buffer |-> <<>>,
                   conn_lost |-> 0, pipe |-> TRUE]]
        s2 == call_soon(s1, Handle("pipe.connection_made", fd, None))
    IN  call_soon(s2, Handle("waiter.set_result", fd, None))

\* _close
ReadPipe_close_exc(s, fd, exc) ==
    LET s1 == [s EXCEPT !.ep[fd].closing = TRUE]
        s2 == remove_reader(s1, fd)
    IN  IF ~s.ep[fd].pipe
        THEN Raise(s1, "AttributeError: pipe._loop is None")
        ELSE call_soon(s2, Handle("pipe._call_connection_lost", fd, exc))

\* _fatal_error
ReadPipe_fatal_error(s, fd, exc) == ReadPipe_close_exc(s, fd, exc)

\* _read_ready scheduling the connection loss before eof_received.
ReadPipe_read_ready_LostFirst(s, fd, r) ==
    IF r = Some(WouldBlock) THEN s
    ELSE IF r = Some(Fatal) THEN ReadPipe_fatal_error(s, fd, Some(EPIPE))
    ELSE IF r # <<>>
    THEN IF ~s.ep[fd].pipe
         THEN Raise(s, "AttributeError: pipe._protocol is None")
         ELSE Proto_data_received(s, fd, r)
    ELSE LET s1 == [s EXCEPT !.ep[fd].closing = TRUE]
             s2 == remove_reader(s1, fd)
             s3 == call_soon(s2, Handle("pipe._call_connection_lost", fd, None))
         IN  IF ~s.ep[fd].pipe
             THEN Raise(s1, "AttributeError: pipe._loop is None")
             ELSE call_soon(s3, Handle("pipe.protocol.eof_received", fd, None))

\* _read_ready; r is what os.read did: WouldBlock, Fatal, <<>> at end of
\* file, or the data read.
ReadPipe_read_ready(s, fd, r) ==
    IF r = Some(WouldBlock) THEN s
    ELSE IF r = Some(Fatal) THEN ReadPipe_fatal_error(s, fd, Some(EPIPE))
    ELSE IF r # <<>>
    THEN IF ~s.ep[fd].pipe
         THEN Raise(s, "AttributeError: pipe._protocol is None")
         ELSE Proto_data_received(s, fd, r)
    ELSE LET s1 == [s EXCEPT !.ep[fd].closing = TRUE]
             s2 == remove_reader(s1, fd)
             s3 == call_soon(s2, Handle("pipe.protocol.eof_received", fd, None))
         IN  IF ~s.ep[fd].pipe
             THEN Raise(s1, "AttributeError: pipe._loop is None")
             ELSE call_soon(s3, Handle("pipe._call_connection_lost", fd, None))

\* pause_reading
ReadPipe_pause_reading(s, fd) ==
    IF ~s.ep[fd].pipe
    THEN Raise(s, "AttributeError: pipe._loop is None")
    ELSE remove_reader(s, fd)

\* resume_reading registering nothing.
ReadPipe_resume_reading_NoAdd(s, fd) ==
    IF ~s.ep[fd].pipe
    THEN Raise(s, "AttributeError: pipe._loop is None")
    ELSE s

\* resume_reading
ReadPipe_resume_reading(s, fd) ==
    IF ~s.ep[fd].pipe
    THEN Raise(s, "AttributeError: pipe._loop is None")
    ELSE add_reader(s, fd)

\* close without its test of _closing.
ReadPipe_close_NoGuard(s, fd) == ReadPipe_close_exc(s, fd, None)

\* close
ReadPipe_close(s, fd) ==
    IF ~s.ep[fd].closing THEN ReadPipe_close_exc(s, fd, None) ELSE s

(***************************************************************************)
(* _UnixWritePipeTransport.                                                *)
(***************************************************************************)
\* __init__
WritePipe_init(s, fd, owner) ==
    LET s1 == [s EXCEPT !.ep[fd] =
                  [kind |-> "w", owner |-> owner, closing |-> FALSE,
                   reader |-> FALSE, writer |-> FALSE, buffer |-> <<>>,
                   conn_lost |-> 0, pipe |-> TRUE]]
        s2 == add_reader(s1, fd)
        s3 == call_soon(s2, Handle("pipe.connection_made", fd, None))
    IN  call_soon(s3, Handle("waiter.set_result", fd, None))

\* _close leaving the descriptor registered for writing.
WritePipe_close_exc_KeepWriter(s, fd, exc) ==
    IF ~s.ep[fd].pipe
    THEN Raise([s EXCEPT !.ep[fd].closing = TRUE],
               "AttributeError: pipe._loop is None")
    ELSE LET s1 == [s EXCEPT !.ep[fd].closing = TRUE]
             s3 == [s1 EXCEPT !.ep[fd].buffer = <<>>]
             s4 == remove_reader(s3, fd)
         IN  call_soon(s4, Handle("pipe._call_connection_lost", fd, exc))

\* _close
WritePipe_close_exc(s, fd, exc) ==
    IF ~s.ep[fd].pipe
    THEN Raise([s EXCEPT !.ep[fd].closing = TRUE],
               "AttributeError: pipe._loop is None")
    ELSE LET s1 == [s EXCEPT !.ep[fd].closing = TRUE]
             s2 == IF s1.ep[fd].buffer # <<>> THEN remove_writer(s1, fd) ELSE s1
             s3 == [s2 EXCEPT !.ep[fd].buffer = <<>>]
             s4 == remove_reader(s3, fd)
         IN  call_soon(s4, Handle("pipe._call_connection_lost", fd, exc))

\* _fatal_error only logging the exception.
WritePipe_fatal_error_LogOnly(s, fd, exc) == s

\* _fatal_error
WritePipe_fatal_error(s, fd, exc) == WritePipe_close_exc(s, fd, exc)

\* _read_ready keeping the buffered data and the writer registration.
WritePipe_read_ready_KeepBuffer(s, fd) ==
    LET s1 == [s EXCEPT !.ep[fd].closing = TRUE]
        s2 == remove_reader(s1, fd)
    IN  call_soon(s2, Handle("pipe._call_connection_lost", fd, None))

\* _read_ready: the peer closed the pipe
WritePipe_read_ready(s, fd) == WritePipe_close_exc(s, fd, None)

\* abort
WritePipe_abort(s, fd) == WritePipe_close_exc(s, fd, None)

\* os.write(self._fileno, data) accepting n bytes
os_write(s, fd, data, n) == [s EXCEPT !.os[fd].written = @ \o Take(data, n)]

\* write without its test of _conn_lost and _closing.
WritePipe_write_NoLostTest(s, fd, data, r) ==
    IF data = <<>> THEN s
    ELSE IF s.ep[fd].buffer = <<>>
    THEN IF r = Fatal
         THEN WritePipe_fatal_error([s EXCEPT !.ep[fd].conn_lost = @ + 1],
                                    fd, Some(EPIPE))
         ELSE LET n == IF r = WouldBlock THEN 0 ELSE r
                  s1 == os_write(s, fd, data, n)
              IN  IF n = Len(data)
                  THEN s1
                  ELSE LET rest == IF n > 0 THEN Drop(data, n) ELSE data
                           s2 == add_writer(s1, fd)
                       IN  [s2 EXCEPT !.ep[fd].buffer = Append(@, rest)]
    ELSE [s EXCEPT !.ep[fd].buffer = Append(@, data)]

\* write; r is what os.write does if it is called: WouldBlock, Fatal or the
\* number of bytes it accepts.
WritePipe_write(s, fd, data, r) ==
    IF data = <<>> THEN s
    ELSE IF s.ep[fd].conn_lost > 0 \/ s.ep[fd].closing
    THEN [s EXCEPT !.ep[fd].conn_lost = @ + 1]
    ELSE IF s.ep[fd].buffer = <<>>
    THEN IF r = Fatal
         THEN WritePipe_fatal_error([s EXCEPT !.ep[fd].conn_lost = @ + 1],
                                    fd, Some(EPIPE))
         ELSE LET n == IF r = WouldBlock THEN 0 ELSE r
                  s1 == os_write(s, fd, data, n)
              IN  IF n = Len(data)
                  THEN s1
                  ELSE LET rest == IF n > 0 THEN Drop(data, n) ELSE data
                           s2 == add_writer(s1, fd)
                       IN  [s2 EXCEPT !.ep[fd].buffer = Append(@, rest)]
    ELSE [s EXCEPT !.ep[fd].buffer = Append(@, data)]

\* _write_ready buffering again all the data after a partial write.
WritePipe_write_ready_KeepAll(s, fd, r) ==
    LET data == Join(s.ep[fd].buffer)
    IN  IF data = <<>>
        THEN Raise(s, "AssertionError: Data should not be empty")
        ELSE LET s0 == [s EXCEPT !.ep[fd].buffer = <<>>]
             IN  IF r = WouldBlock
                 THEN [s0 EXCEPT !.ep[fd].buffer = Append(@, data)]
                 ELSE IF r = Fatal
                 THEN WritePipe_fatal_error(
                          remove_writer(
                              [s0 EXCEPT !.ep[fd].conn_lost = @ + 1], fd),
                          fd, Some(EPIPE))
                 ELSE LET s1 == os_write(s0, fd, data, r)
                      IN  IF r = Len(data)
                          THEN LET s2 == remove_writer(s1, fd)
                               IN  IF s2.ep[fd].closing
                                   THEN Pipe_call_connection_lost(
                                            remove_reader(s2, fd), fd, None)
                                   ELSE s2
                          ELSE [s1 EXCEPT !.ep[fd].buffer = Append(@, data)]

\* _write_ready leaving the descriptor registered after a complete flush.
WritePipe_write_ready_KeepWriter(s, fd, r) ==
    LET data == Join(s.ep[fd].buffer)
    IN  IF data = <<>>
        THEN Raise(s, "AssertionError: Data should not be empty")
        ELSE LET s0 == [s EXCEPT !.ep[fd].buffer = <<>>]
             IN  IF r = WouldBlock
                 THEN [s0 EXCEPT !.ep[fd].buffer = Append(@, data)]
                 ELSE IF r = Fatal
                 THEN WritePipe_fatal_error(
                          remove_writer(
                              [s0 EXCEPT !.ep[fd].conn_lost = @ + 1], fd),
                          fd, Some(EPIPE))
                 ELSE LET s1 == os_write(s0, fd, data, r)
                      IN  IF r = Len(data)
                          THEN IF s1.ep[fd].closing
                               THEN Pipe_call_connection_lost(
                                        remove_reader(s1, fd), fd, None)
                               ELSE s1
                          ELSE LET rest == IF r > 0 THEN Drop(data, r) ELSE data
                               IN  [s1 EXCEPT !.ep[fd].buffer = Append(@, rest)]

\* _write_ready
WritePipe_write_ready(s, fd, r) ==
    LET data == Join(s.ep[fd].buffer)
    IN  IF data = <<>>
        THEN Raise(s, "AssertionError: Data should not be empty")
        ELSE LET s0 == [s EXCEPT !.ep[fd].buffer = <<>>]
             IN  IF r = WouldBlock
                 THEN [s0 EXCEPT !.ep[fd].buffer = Append(@, data)]
                 ELSE IF r = Fatal
                 THEN WritePipe_fatal_error(
                          remove_writer(
                              [s0 EXCEPT !.ep[fd].conn_lost = @ + 1], fd),
                          fd, Some(EPIPE))
                 ELSE LET s1 == os_write(s0, fd, data, r)
                      IN  IF r = Len(data)
                          THEN LET s2 == remove_writer(s1, fd)
                               IN  IF s2.ep[fd].closing
                                   THEN Pipe_call_connection_lost(
                                            remove_reader(s2, fd), fd, None)
                                   ELSE s2
                          ELSE LET rest == IF r > 0 THEN Drop(data, r) ELSE data
                               IN  [s1 EXCEPT !.ep[fd].buffer = Append(@, rest)]

\* write_eof tearing the endpoint down whatever the buffer holds.
WritePipe_write_eof_NoDefer(s, fd) ==
    IF s.ep[fd].closing THEN s
    ELSE IF ~s.ep[fd].pipe
    THEN Raise(s, "AssertionError: assert self._pipe")
    ELSE LET s1 == [s EXCEPT !.ep[fd].closing = TRUE]
         IN  call_soon(remove_reader(s1, fd),
                       Handle("pipe._call_connection_lost", fd, None))

\* write_eof
WritePipe_write_eof(s, fd) ==
    IF s.ep[fd].closing THEN s
    ELSE IF ~s.ep[fd].pipe
    THEN Raise(s, "AssertionError: assert self._pipe")
    ELSE LET s1 == [s EXCEPT !.ep[fd].closing = TRUE]
         IN  IF s1.ep[fd].buffer = <<>>
             THEN call_soon(remove_reader(s1, fd),
                            Handle("pipe._call_connection_lost", fd, None))
             ELSE s1

\* close
WritePipe_close(s, fd) ==
    IF ~s.ep[fd].closing THEN WritePipe_write_eof(s, fd) ELSE s

\* proto.pipe.close() for the transport of either direction
Pipe_close(s, fd) ==
    IF s.ep[fd].kind = "w" THEN WritePipe_close(s, fd) ELSE ReadPipe_close(s, fd)

(***************************************************************************)
(* BaseSubprocessTransport: close and the _connect_pipes coroutine.        *)
(***************************************************************************)
\* The pid of the transport's child process.
Pid == 1

RECURSIVE ClosePipes(_, _)
\* for proto in self._pipes.values(): ... proto.pipe.close()
ClosePipes(s, fds) ==
    IF fds = {} THEN s
    ELSE LET fd == CHOOSE x \in fds : \A y \in fds : x <= y
             s1 == IF ~s.transp.pipes[fd] THEN s
                   ELSE IF ~s.protos[fd].pipe
                   THEN Raise(s, "AttributeError: proto.pipe is None")
                   ELSE Pipe_close(s, fd)
         IN  ClosePipes(s1, fds \ {fd})

\* close without the except clause around self._proc.kill().
Transp_close_NoExcept(s) ==
    LET s1 == [s EXCEPT !.transp.closed = TRUE]
        s2 == ClosePipes(s1, DOMAIN s1.transp.pipes)
    IN  IF s2.transp.proc /\ IsNone(s2.transp.returncode)
        THEN Popen_kill(s2, Pid)
        ELSE s2

\* close
Transp_close(s) ==
    LET s1 == [s EXCEPT !.transp.closed = TRUE]
        s2 == ClosePipes(s1, DOMAIN s1.transp.pipes)
    IN  IF s2.transp.proc /\ IsNone(s2.transp.returncode)
        THEN \* except ProcessLookupError: pass
             [Popen_kill(s2, Pid) EXCEPT !.errors = s2.errors]
        ELSE s2

\* _check_proc without its test of self._closed.
Transp_check_proc_NoClosed(s) ==
    IF ~s.transp.proc
    THEN Some("ProcessLookupError")
    ELSE None

\* _check_proc: the exception it raises, None when it returns.
Transp_check_proc(s) ==
    IF s.transp.closed
    THEN Some("ValueError: operation on closed transport")
    ELSE IF ~s.transp.proc
    THEN Some("ProcessLookupError")
    ELSE None

\* send_signal
Transp_send_signal(s, sig) ==
    IF ~IsNone(Transp_check_proc(s))
    THEN Raise(s, Val(Transp_check_proc(s)))
    ELSE Popen_send_signal(s, Pid, sig)

\* terminate
Transp_terminate(s) ==
    IF ~IsNone(Transp_check_proc(s))
    THEN Raise(s, Val(Transp_check_proc(s)))
    ELSE Popen_terminate(s, Pid)

\* kill
Transp_kill(s) ==
    IF ~IsNone(Transp_check_proc(s))
    THEN Raise(s, Val(Transp_check_proc(s)))
    ELSE Popen_kill(s, Pid)

\* The waiter's outcome set without the test of waiter.cancelled().
SetWaiter_NoCancelled(s, outcome) ==
    IF s.task.waiter # "none" THEN [s EXCEPT !.task.waiter = outcome] ELSE s

\* The except and else branches of _connect_pipes: the waiter's outcome.
SetWaiter(s, outcome) ==
    IF s.task.waiter = "pending" THEN [s EXCEPT !.task.waiter = outcome] ELSE s

RECURSIVE FlushPending(_, _)
\* for callback, data in self._pending_calls: loop.call_soon(callback, *data)
FlushPending(s, q) ==
    IF q = <<>> THEN s ELSE FlushPending(call_soon(s, Head(q)), Tail(q))

\* _connect_pipes scheduling connection_made behind the pending calls.
ConnectPipes_finish_MadeLast(s) ==
    IF IsNone(s.transp.pending_calls)
    THEN SetWaiter(
             [Raise(s, "AssertionError: _pending_calls is None")
                 EXCEPT !.task.pc = "failed"], "exception")
    ELSE LET s1 == FlushPending(s, Val(s.transp.pending_calls))
             s2 == call_soon(s1, Handle("protocol.connection_made", -1, None))
             s3 == [s2 EXCEPT !.transp.pending_calls = None,
                              !.task.pc = "done"]
         IN  SetWaiter(s3, "result")

\* _connect_pipes from "assert self._pending_calls is not None" on
ConnectPipes_finish(s) ==
    IF IsNone(s.transp.pending_calls)
    THEN SetWaiter(
             [Raise(s, "AssertionError: _pending_calls is None")
                 EXCEPT !.task.pc = "failed"], "exception")
    ELSE LET s1 == call_soon(s, Handle("protocol.connection_made", -1, None))
             s2 == FlushPending(s1, Val(s.transp.pending_calls))
             s3 == [s2 EXCEPT !.transp.pending_calls = None,
                              !.task.pc = "done"]
         IN  SetWaiter(s3, "result")

\* loop.connect_write_pipe / connect_read_pipe up to their yield: the
\* protocol factory is called and the pipe transport constructed with a
\* waiter, on which the coroutine then waits.
connect_pipe(s, fd) ==
    LET s1 == [s EXCEPT !.protos[fd] =
                  [exists |-> TRUE, pipe |-> FALSE, disconnected |-> FALSE,
                   proc |-> TRUE]]
    IN  IF fd = STDIN
        THEN WritePipe_init(s1, fd, "sub")
        ELSE ReadPipe_init(s1, fd, "sub")

RECURSIVE ConnectPipes_from(_, _, _)
\* _connect_pipes from the test of stream k on, up to its next yield;
\* with fail, constructing the next pipe transport raises.
ConnectPipes_from(s, k, fail) ==
    IF k > STDERR THEN ConnectPipes_finish(s)
    ELSE IF k \in DOMAIN s.transp.pipes
    THEN IF fail
         THEN SetWaiter([s EXCEPT !.task.pc = "failed"], "exception")
         ELSE [connect_pipe(s, k) EXCEPT !.task.pc = "await", !.task.fd = k]
    ELSE ConnectPipes_from(s, k + 1, fail)

\* _connect_pipes going on to the next stream without "self._pipes[fd] = pipe".
ConnectPipes_step_NoStore(s, fail) ==
    IF s.task.pc = "start"
    THEN ConnectPipes_from(s, STDIN, fail)
    ELSE IF s.task.pc = "await"
    THEN ConnectPipes_from(s, s.task.fd + 1, fail)
    ELSE s

\* One step of the task running _connect_pipes: from its start or from the
\* yield it is suspended at, to the next yield or its end.
ConnectPipes_step(s, fail) ==
    IF s.task.pc = "start"
    THEN ConnectPipes_from(s, STDIN, fail)
    ELSE IF s.task.pc = "await"
    THEN ConnectPipes_from([s EXCEPT !.transp.pipes[s.task.fd] = TRUE],
                           s.task.fd + 1, fail)
    ELSE s

\* _UnixSelectorEventLoop._child_watcher_callback
child_watcher_callback(s, returncode) ==
    call_soon(s, Handle("transp._process_exited", -1, Some(returncode)))

(***************************************************************************)
(* The child watchers.  A watcher method is run one step at a time on      *)
(*   x = [w |-> the watcher, child |-> the processes, f |-> the frame]     *)
(* where the frame holds the method's program counter and locals.  A step  *)
(* is one operation on shared state, with the local computation after it.  *)
(***************************************************************************)
Pids == {1, 2}

\* The macros of <sys/wait.h> behind os.WIFSIGNALED and the others.
WTERMSIG(status) == status % 128
WIFEXITED(status) == WTERMSIG(status) = 0
WIFSIGNALED(status) == WTERMSIG(status) # 0 /\ WTERMSIG(status) # 127
WEXITSTATUS(status) == (status \div 256) % 256

\* _compute_returncode returning the signal number as it is.
compute_returncode_NoSign(status) ==
    IF WIFSIGNALED(status) THEN WTERMSIG(status)
    ELSE IF WIFEXITED(status) THEN WEXITSTATUS(status)
    ELSE status

\* BaseChildWatcher._compute_returncode
compute_returncode(status) ==
    IF WIFSIGNALED(status) THEN -WTERMSIG(status)
    ELSE IF WIFEXITED(status) THEN WEXITSTATUS(status)
    ELSE status

\* BaseChildWatcher.__init__ and FastChildWatcher.__init__
Watcher_init(kind) ==
    [kind |-> kind,
     callbacks |-> [p \in Pids |-> None],
     zombies |-> [p \in Pids |-> None],
     forks |-> 0,
     lock |-> None,
     invoked |-> <<>>,
     unknown |-> {},
     failed |-> {},
     removed |-> <<>>,
     replaced |-> {}]

\* The frame of thread t entering a method at pc.
Frame(t, pc, pid, cb) ==
    [t |-> t, pc |-> pc, pid |-> pid, cb |-> cb, rc |-> 0, status |-> None,
     todo |-> <<>>, all |-> FALSE]

Idle(t) == Frame(t, "done", 0, 0)

\* callback(pid, returncode, *args)
Invoke(x) ==
    [x EXCEPT !.w.invoked =
        Append(@, [pid |-> x.f.pid, returncode |-> x.f.rc, cb |-> x.f.cb,
                   status |-> x.f.status, t |-> x.f.t])]

RECURSIVE SortedSeq(_)
\* list(self._callbacks)
SortedSeq(S) ==
    IF S = {} THEN <<>>
    ELSE LET m == CHOOSE a \in S : \A b \in S : a <= b
         IN  <<m>> \o SortedSeq(S \ {m})

\* SafeChildWatcher: the return of _do_waitpid, to add_child_handler or to
\* the loop of _do_waitpid_all.
Safe_return(x) ==
    IF x.f.all /\ x.f.todo # <<>>
    THEN [x EXCEPT !.f.pid = Head(x.f.todo), !.f.todo = Tail(x.f.todo),
                   !.f.pc = "s_waitpid"]
    ELSE [x EXCEPT !.f.pc = "done"]

\* What self._callbacks[pid] = callback, args replaces: the handler the
\* pid had, recorded in replaced.
Replacing(x) ==
    IF IsNone(x.w.callbacks[x.f.pid]) THEN x.w.replaced
    ELSE x.w.replaced
             \cup {[pid |-> x.f.pid, cb |-> Val(x.w.callbacks[x.f.pid])]}

\* SafeChildWatcher.add_child_handler: self._callbacks[pid] = callback, args
Safe_add_child_handler(x) ==
    [x EXCEPT !.w.callbacks[x.f.pid] = Some(x.f.cb),
              !.w.replaced = Replacing(x),
              !.f.pc = "s_waitpid"]

\* SafeChildWatcher._do_waitpid_all: for pid in list(self._callbacks)
Safe_do_waitpid_all(x) ==
    LET todo == SortedSeq({p \in Pids : ~IsNone(x.w.callbacks[p])})
    IN  IF todo = <<>>
        THEN [x EXCEPT !.f.pc = "done"]
        ELSE [x EXCEPT !.f.all = TRUE, !.f.pid = Head(todo),
                       !.f.todo = Tail(todo), !.f.pc = "s_waitpid"]

\* _do_waitpid returning when os.waitpid raises ChildProcessError.
Safe_waitpid_Skip(x) ==
    LET c == x.child[x.f.pid]
    IN  IF c.state = "running"
        THEN Safe_return(x)
        ELSE IF c.state = "zombie"
        THEN [x EXCEPT !.child[x.f.pid] = Reaped(c),
                       !.f.status = Some(c.status),
                       !.f.rc = compute_returncode(c.status),
                       !.f.pc = "s_pop"]
        ELSE Safe_return(x)

\* SafeChildWatcher._do_waitpid: os.waitpid(expected_pid, os.WNOHANG)
Safe_waitpid(x) ==
    LET c == x.child[x.f.pid]
    IN  IF c.state = "running"
        THEN Safe_return(x)
        ELSE IF c.state = "zombie"
        THEN [x EXCEPT !.child[x.f.pid] = Reaped(c),
                       !.f.status = Some(c.status),
                       !.f.rc = compute_returncode(c.status),
                       !.f.pc = "s_pop"]
        ELSE [x EXCEPT !.f.status = None, !.f.rc = 255, !.f.pc = "s_pop"]

\* _do_waitpid looking the callback up without removing it.
Safe_pop_Get(x) ==
    IF IsNone(x.w.callbacks[x.f.pid])
    THEN Safe_return(x)
    ELSE [x EXCEPT !.f.cb = Val(x.w.callbacks[x.f.pid]),
                   !.f.pc = "s_call"]

\* SafeChildWatcher._do_waitpid: self._callbacks.pop(pid)
Safe_pop(x) ==
    IF IsNone(x.w.callbacks[x.f.pid])
    THEN Safe_return(x)
    ELSE [x EXCEPT !.f.cb = Val(x.w.callbacks[x.f.pid]),
                   !.w.callbacks[x.f.pid] = None,
                   !.f.pc = "s_call"]

\* SafeChildWatcher._do_waitpid: callback(pid, returncode, *args)
Safe_call(x) == Safe_return(Invoke(x))

\* FastChildWatcher.__enter__ / __exit__: with self._lock
Fast_acquire(x, next) ==
    [x EXCEPT !.w.lock = Some(x.f.t), !.f.pc = next]

\* FastChildWatcher.__enter__: self._forks += 1
Fast_enter(x) ==
    [x EXCEPT !.w.forks = @ + 1, !.w.lock = None, !.f.pc = "done"]

\* __exit__ testing only whether there are zombies.
Fast_exit_NoForksTest(x) ==
    IF \A p \in Pids : IsNone(x.w.zombies[p])
    THEN [x EXCEPT !.w.forks = @ - 1, !.w.lock = None, !.f.pc = "done"]
    ELSE [x EXCEPT !.w.forks = @ - 1, !.f.pc = "exit_clear"]

\* FastChildWatcher.__exit__: self._forks -= 1 and the test after it
Fast_exit(x) ==
    IF x.w.forks - 1 # 0 \/ \A p \in Pids : IsNone(x.w.zombies[p])
    THEN [x EXCEPT !.w.forks = @ - 1, !.w.lock = None, !.f.pc = "done"]
    ELSE [x EXCEPT !.w.forks = @ - 1, !.f.pc = "exit_clear"]

\* FastChildWatcher.__exit__: self._zombies.clear() and the warning
Fast_exit_clear(x) ==
    [x EXCEPT !.w.unknown = @ \cup {p \in Pids : ~IsNone(x.w.zombies[p])},
              !.w.zombies = [p \in Pids |-> None],
              !.w.lock = None, !.f.pc = "done"]

\* FastChildWatcher.add_child_handler: assert self._forks
Fast_add_assert(x) ==
    IF x.w.forks = 0
    THEN [x EXCEPT !.w.failed = @ \cup {"Must use the context manager"},
                   !.f.pc = "done"]
    ELSE [x EXCEPT !.f.pc = "f_set"]

\* FastChildWatcher.add_child_handler: self._callbacks[pid] = callback, args
Fast_add_set(x) ==
    [x EXCEPT !.w.callbacks[x.f.pid] = Some(x.f.cb),
              !.w.replaced = Replacing(x),
              !.f.pc = "f_zpop"]

\* add_child_handler taking any code of the zombie cache.
Fast_add_zpop_Any(x) ==
    IF \A p \in Pids : IsNone(x.w.zombies[p])
    THEN [x EXCEPT !.f.pc = "done"]
    ELSE LET p == CHOOSE q \in Pids : ~IsNone(x.w.zombies[q])
         IN  [x EXCEPT !.f.rc = Val(x.w.zombies[p]),
                       !.w.zombies[p] = None,
                       !.f.pc = "f_del"]

\* FastChildWatcher.add_child_handler: returncode = self._zombies.pop(pid)
Fast_add_zpop(x) ==
    IF IsNone(x.w.zombies[x.f.pid])
    THEN [x EXCEPT !.f.pc = "done"]
    ELSE [x EXCEPT !.f.rc = Val(x.w.zombies[x.f.pid]),
                   !.w.zombies[x.f.pid] = None,
                   !.f.pc = "f_del"]

\* FastChildWatcher.add_child_handler: del self._callbacks[pid]
Fast_add_del(x) ==
    IF IsNone(x.w.callbacks[x.f.pid])
    THEN [x EXCEPT !.f.pc = "done"]
    ELSE [x EXCEPT !.w.callbacks[x.f.pid] = None, !.f.pc = "f_call"]

\* FastChildWatcher.add_child_handler: callback(pid, returncode, *args)
Fast_add_call(x) == [Invoke(x) EXCEPT !.f.pc = "done"]

\* FastChildWatcher._do_waitpid_all: os.waitpid(-1, os.WNOHANG), which
\* reaps the terminated child pick when there is one.
Fast_waitpid(x, pick) ==
    IF x.child[pick].state # "zombie"
    THEN [x EXCEPT !.f.pc = "done"]
    ELSE [x EXCEPT !.child[pick] = Reaped(x.child[pick]),
                   !.f.pid = pick,
                   !.f.status = Some(x.child[pick].status),
                   !.f.rc = compute_returncode(x.child[pick].status),
                   !.f.pc = "fw_pop"]

\* FastChildWatcher._do_waitpid_all: self._callbacks.pop(pid)
Fast_pop(x) ==
    IF IsNone(x.w.callbacks[x.f.pid])
    THEN [x EXCEPT !.f.pc = "fw_lock"]
    ELSE [x EXCEPT !.f.cb = Val(x.w.callbacks[x.f.pid]),
                   !.w.callbacks[x.f.pid] = None,
                   !.f.pc = "fw_call"]

\* _do_waitpid_all continuing without storing the code of the unknown child.
Fast_unknown_Drop(x) ==
    IF x.w.forks # 0
    THEN [x EXCEPT !.w.lock = None, !.f.pc = "fw_wait"]
    ELSE [x EXCEPT !.w.unknown = @ \cup {x.f.pid},
                   !.w.lock = None, !.f.pc = "fw_wait"]

\* FastChildWatcher._do_waitpid_all: the unknown child, under the lock
Fast_unknown(x) ==
    IF x.w.forks # 0
    THEN [x EXCEPT !.w.zombies[x.f.pid] = Some(x.f.rc),
                   !.w.lock = None, !.f.pc = "fw_wait"]
    ELSE [x EXCEPT !.w.unknown = @ \cup {x.f.pid},
                   !.w.lock = None, !.f.pc = "fw_wait"]

\* FastChildWatcher._do_waitpid_all: callback(pid, returncode, *args)
Fast_call(x) == [Invoke(x) EXCEPT !.f.pc = "fw_wait"]

\* remove_child_handler answering True without deleting the handler.
remove_child_handler_Keep(w, pid) ==
    [w EXCEPT !.removed =
        Append(@, [pid |-> pid, cb |-> w.callbacks[pid],
                   result |-> ~IsNone(w.callbacks[pid])])]

\* BaseChildWatcher.remove_child_handler, on the watcher w: the handler
\* deleted and the value returned are recorded in removed.
remove_child_handler(w, pid) ==
    IF IsNone(w.callbacks[pid])
    THEN \* except KeyError: return False
         [w EXCEPT !.removed =
             Append(@, [pid |-> pid, cb |-> None, result |-> FALSE])]
    ELSE [w EXCEPT !.callbacks[pid] = None,
                   !.removed =
                       Append(@, [pid |-> pid, cb |-> w.callbacks[pid],
                                  result |-> TRUE])]

\* The steps that take the lock wait for it.
TakesLock(pc) == pc \in {"enter_lock", "exit_lock", "fw_lock"}
CanStep(x) ==
    /\ x.f.pc # "done"
    /\ TakesLock(x.f.pc) => IsNone(x.w.lock)

\* One step of the method the frame is in.
WatcherStep(x, pick) ==
    CASE x.f.pc = "s_add" -> Safe_add_child_handler(x)
      [] x.f.pc = "s_all" -> Safe_do_waitpid_all(x)
      [] x.f.pc = "s_waitpid" -> Safe_waitpid(x)
      [] x.f.pc = "s_pop" -> Safe_pop(x)
      [] x.f.pc = "s_call" -> Safe_call(x)
      [] x.f.pc = "enter_lock" -> Fast_acquire(x, "enter_inc")
      [] x.f.pc = "enter_inc" -> Fast_enter(x)
      [] x.f.pc = "exit_lock" -> Fast_acquire(x, "exit_dec")
      [] x.f.pc = "exit_dec" -> Fast_exit(x)
      [] x.f.pc = "exit_clear" -> Fast_exit_clear(x)
      [] x.f.pc = "f_add" -> Fast_add_assert(x)
      [] x.f.pc = "f_set" -> Fast_add_set(x)
      [] x.f.pc = "f_zpop" -> Fast_add_zpop(x)
      [] x.f.pc = "f_del" -> Fast_add_del(x)
      [] x.f.pc = "f_call" -> Fast_add_call(x)
      [] x.f.pc = "fw_wait" -> Fast_waitpid(x, pick)
      [] x.f.pc = "fw_pop" -> Fast_pop(x)
      [] x.f.pc = "fw_lock" -> Fast_acquire(x, "fw_unknown")
      [] x.f.pc = "fw_unknown" -> Fast_unknown(x)
      [] x.f.pc = "fw_call" -> Fast_call(x)

\* What waitpid(-1) may reap: any terminated child (1 stands for "none").
Pickable(c) ==
    IF \E p \in Pids : c[p].state = "zombie"
    THEN {p \in Pids : c[p].state = "zombie"}
    ELSE {1}

RECURSIVE RunMethod(_)
\* A whole method, run by the loop thread with no other thread running.
RunMethod(x) ==
    IF x.f.pc = "done" THEN x
    ELSE RunMethod(WatcherStep(x, CHOOSE p \in Pickable(x.child) : TRUE))

\* The entry points of the two strategies.
PcEnter(kind) == IF kind = "Fast" THEN "enter_lock" ELSE "done"
PcExit(kind) == IF kind = "Fast" THEN "exit_lock" ELSE "done"
PcAdd(kind) == IF kind = "Fast" THEN "f_add" ELSE "s_add"
PcWaitAll(kind) == IF kind = "Fast" THEN "fw_wait" ELSE "s_all"

(***************************************************************************)
(* The loop thread calling the watcher (no other thread is running): the   *)
(* callbacks the method invokes are _child_watcher_callback.               *)
(***************************************************************************)
RECURSIVE InvokeAll(_, _)
InvokeAll(s, inv) ==
    IF inv = <<>> THEN s
    ELSE InvokeAll(child_watcher_callback(s, Head(inv).returncode), Tail(inv))

CallWatcher(s, pc, pid) ==
    LET x == RunMethod([w |-> s.watcher, child |-> s.child,
                        f |-> Frame(0, pc, pid, 1)])
        s1 == [s EXCEPT !.watcher = x.w, !.child = x.child]
    IN  InvokeAll(s1, SubSeq(x.w.invoked, Len(s.watcher.invoked) + 1,
                             Len(x.w.invoked)))

\* BaseChildWatcher._sig_chld
sig_chld(s) == CallWatcher(s, PcWaitAll(s.watcher.kind), 0)

(***************************************************************************)
(* Signal handling of _UnixSelectorEventLoop: the table _signal_handlers,  *)
(* the wakeup descriptor of the signal module, and the handler installed   *)
(* for each signal.  The methods are called in the loop's thread, which is *)
(* the main thread of the interpreter or is not.                           *)
(***************************************************************************)
SIGINT == 2
NSIG == 65
\* The signals of the model, and as 0 a number that is none.
Signals == {SIGINT, SIGKILL, SIGTERM}
\* sigaction refuses a handler for these with EINVAL.
Uncatchable == {SIGKILL}

\* _UnixSelectorEventLoop.__init__: self._signal_handlers = {}; main tells
\* whether the loop's thread is the main thread.
NoSignals(main) ==
    [handlers |-> [sig \in Signals |-> None],
     wakeup |-> FALSE,
     installed |-> [sig \in Signals |->
                      IF sig = SIGINT THEN "default_int_handler" ELSE "SIG_DFL"],
     main |-> main]

\* not self._signal_handlers
NoHandlers(s) == \A sig \in Signals : IsNone(s.sigs.handlers[sig])

\* _check_signal: the signal number is in range
check_signal(sig) == 1 <= sig /\ sig < NSIG

\* signal.set_wakeup_fd(-1) inside try ... except ValueError: logger.info
clear_wakeup_fd(s) ==
    IF s.sigs.main THEN [s EXCEPT !.sigs.wakeup = FALSE] ELSE s

\* self._signal_handlers[sig] is replaced or deleted: the handles of sig
\* in the loop's queue are no longer the handle of the table.
Detach(s, sig) ==
    [s EXCEPT !.ready =
        [i \in DOMAIN @ |->
            IF @[i].cb = "signal.handler" /\ @[i].fd = sig
            THEN [@[i] EXCEPT !.cb = "signal.detached"] ELSE @[i]]]

\* add_signal_handler leaving the entry in the table when signal.signal
\* has failed.
add_signal_handler_NoDel(s, sig, cb) ==
    IF ~check_signal(sig)
    THEN Raise(s, "ValueError: sig out of range")
    ELSE IF ~s.sigs.main
    THEN Raise(s, "RuntimeError: set_wakeup_fd only works in main thread")
    ELSE LET s1 == [Detach(s, sig) EXCEPT
                        !.sigs.wakeup = TRUE,
                        !.sigs.handlers[sig] =
                            Some([cb |-> cb, cancelled |-> FALSE])]
         IN  IF sig \notin Uncatchable
             THEN [s1 EXCEPT !.sigs.installed[sig] = "_handle_signal"]
             ELSE Raise(s1, "RuntimeError: sig cannot be caught")

\* add_signal_handler
add_signal_handler(s, sig, cb) ==
    IF ~check_signal(sig)
    THEN Raise(s, "ValueError: sig out of range")
    ELSE IF ~s.sigs.main
    THEN \* signal.set_wakeup_fd raises ValueError
         Raise(s, "RuntimeError: set_wakeup_fd only works in main thread")
    ELSE LET s1 == [Detach(s, sig) EXCEPT
                        !.sigs.wakeup = TRUE,
                        !.sigs.handlers[sig] =
                            Some([cb |-> cb, cancelled |-> FALSE])]
         IN  IF sig \notin Uncatchable
             THEN [s1 EXCEPT !.sigs.installed[sig] = "_handle_signal"]
             ELSE \* except OSError
                  LET s2 == [s1 EXCEPT !.sigs.handlers[sig] = None]
                      s3 == IF NoHandlers(s2) THEN clear_wakeup_fd(s2) ELSE s2
                  IN  Raise(s3, "RuntimeError: sig cannot be caught")

\* remove_signal_handler clearing the wakeup descriptor whatever is left
\* in the table.
remove_signal_handler_Clear(s, sig) ==
    IF ~check_signal(sig)
    THEN Raise(s, "ValueError: sig out of range")
    ELSE IF IsNone(s.sigs.handlers[sig])
    THEN s
    ELSE LET s1 == [Detach(s, sig) EXCEPT !.sigs.handlers[sig] = None]
         IN  IF ~s.sigs.main
             THEN Raise(s1, "ValueError: signal only works in main thread")
             ELSE IF sig \in Uncatchable
             THEN Raise(s1, "RuntimeError: sig cannot be caught")
             ELSE clear_wakeup_fd(
                      [s1 EXCEPT !.sigs.installed[sig] =
                          IF sig = SIGINT THEN "default_int_handler"
                          ELSE "SIG_DFL"])

\* remove_signal_handler
remove_signal_handler(s, sig) ==
    IF ~check_signal(sig)
    THEN Raise(s, "ValueError: sig out of range")
    ELSE IF IsNone(s.sigs.handlers[sig])
    THEN \* except KeyError: return False
         s
    ELSE LET s1 == [Detach(s, sig) EXCEPT !.sigs.handlers[sig] = None]
         IN  IF ~s.sigs.main
             THEN Raise(s1, "ValueError: signal only works in main thread")
             ELSE IF sig \in Uncatchable
             THEN Raise(s1, "RuntimeError: sig cannot be caught")
             ELSE LET s2 == [s1 EXCEPT !.sigs.installed[sig] =
                                IF sig = SIGINT THEN "default_int_handler"
                                ELSE "SIG_DFL"]
                  IN  IF NoHandlers(s2) THEN clear_wakeup_fd(s2) ELSE s2

\* _handle_signal running the callback itself.
handle_signal_Direct(s, sig) ==
    IF IsNone(s.sigs.handlers[sig])
    THEN s
    ELSE IF Val(s.sigs.handlers[sig]).cancelled
    THEN remove_signal_handler(s, sig)
    ELSE Deliver(s, "signal", -1, Some(Val(s.sigs.handlers[sig]).cb))

\* _handle_signal
handle_signal(s, sig) ==
    IF IsNone(s.sigs.handlers[sig])
    THEN s
    ELSE IF Val(s.sigs.handlers[sig]).cancelled
    THEN remove_signal_handler(s, sig)
    ELSE call_soon(s, Handle("signal.handler", sig,
                             Some(Val(s.sigs.handlers[sig]).cb)))

\* The loop runs the handle of a signal handler, unless it was cancelled:
\* a handle queued as "signal.handler" is the one in the table.
run_signal_handle(s, h) ==
    IF /\ h.cb = "signal.handler"
       /\ Val(s.sigs.handlers[h.fd]).cancelled
    THEN s
    ELSE Deliver(s, "signal", -1, h.arg)

(***************************************************************************)
(* The event loop.  One iteration polls the selector, which appends the    *)
(* callbacks of the descriptors found ready and of the signals received,   *)
(* and then runs the callbacks scheduled up to then, in FIFO order;        *)
(* callbacks scheduled meanwhile run in the next iteration.                *)
(***************************************************************************)
\* The outcomes of the system call a callback makes, or of the constructor
\* called by a step of _connect_pipes: Fatal and WouldBlock, 0 for end of
\* file, the number of bytes read or written otherwise.
Ok == 0

\* The loop runs callback h; c is the outcome of its system call.
RunHandle(s, h, c) ==
    CASE h.cb = "pipe.connection_made" -> Proto_connection_made(s, h.fd)
      [] h.cb = "waiter.set_result" ->
            IF s.ep[h.fd].owner = "sub"
            THEN call_soon(s, Handle("task._step", -1, None))
            ELSE s
      [] h.cb = "task._step" -> ConnectPipes_step(s, c = Fatal)
      [] h.cb = "pipe._read_ready" ->
            IF ~s.ep[h.fd].reader THEN s
            ELSE IF s.ep[h.fd].kind = "w"
            THEN WritePipe_read_ready([s EXCEPT !.os[h.fd].failed = TRUE], h.fd)
            ELSE IF c = Ok THEN ReadPipe_read_ready(s, h.fd, <<>>)
            ELSE IF c > 0
            THEN ReadPipe_read_ready(
                     [s EXCEPT !.os[h.fd].reads = @ + 1], h.fd,
                     <<s.os[h.fd].reads + 1>>)
            ELSE ReadPipe_read_ready(s, h.fd, Some(c))
      [] h.cb = "pipe._write_ready" ->
            IF ~s.ep[h.fd].writer THEN s
            ELSE WritePipe_write_ready(
                     [s EXCEPT !.os[h.fd].failed = @ \/ c = Fatal], h.fd, c)
      [] h.cb = "watcher._sig_chld" -> sig_chld(s)
      [] h.cb = "pipe.protocol.eof_received" -> Proto_eof_received(s, h.fd)
      [] h.cb = "pipe._call_connection_lost" ->
            Pipe_call_connection_lost(s, h.fd, h.arg)
      [] h.cb = "transp._process_exited" ->
            Transp_process_exited(s, Val(h.arg))
      [] h.cb = "transp._call_connection_lost" ->
            Transp_call_connection_lost(s, h.arg)
      [] h.cb = "protocol.connection_made" ->
            Deliver(s, "connection_made", -1, None)
      [] h.cb = "protocol.pipe_data_received" ->
            Deliver(s, "pipe_data_received", h.fd, h.arg)
      [] h.cb = "protocol.pipe_connection_lost" ->
            Deliver(s, "pipe_connection_lost", h.fd, h.arg)
      [] h.cb = "protocol.process_exited" ->
            Deliver(s, "process_exited", -1, None)
      [] h.cb \in {"signal.handler", "signal.detached"} ->
            run_signal_handle(s, h)
      [] h.cb = "Handle.cancelled" -> s

WriteResults(data) == {WouldBlock, Fatal} \cup (0..Len(data))

\* The outcomes callback h can meet in world s.
Outcomes(s, h) ==
    CASE h.cb = "task._step" ->
            IF \E fd \in DOMAIN s.transp.pipes :
                  fd > (IF s.task.pc = "start" THEN -1 ELSE s.task.fd)
            THEN {Ok, Fatal} ELSE {Ok}
      [] h.cb = "pipe._read_ready" /\ s.ep[h.fd].reader
                                    /\ s.ep[h.fd].kind = "r" ->
            \* os.read on a descriptor already closed: EBADF
            IF s.os[h.fd].closes > 0 THEN {Fatal}
            ELSE {WouldBlock, Fatal, Ok}
                    \cup (IF s.os[h.fd].reads < MaxReads THEN {1} ELSE {})
      [] h.cb = "pipe._write_ready" /\ s.ep[h.fd].writer ->
            WriteResults(Join(s.ep[h.fd].buffer))
      [] OTHER -> {Ok}

Queued(cb, fd) == \E i \in DOMAIN ready : ready[i].cb = cb /\ ready[i].fd = fd

(***************************************************************************)
(* Initial states.                                                         *)
(***************************************************************************)
Methods == {"any", "close", "write", "write_eof", "wait", "send_signal",
            "terminate", "kill", "notify", "signal", "abort", "pause_reading",
            "resume_reading"}
NoCalls == [k \in Methods \X Objects |-> 0]
\* What happened on each descriptor: the bytes passed to write() and those
\* os.write accepted, the times it was closed, the chunks read, whether
\* a system call failed or the peer closed the pipe, and (for a pipe
\* transport on its own) the result of the last os.read or os.write that a
\* readiness callback made.
NoOs == [fd \in Fds |-> [sent |-> <<>>, written |-> <<>>, closes |-> 0,
                         reads |-> 0, failed |-> FALSE, result |-> None]]
NoChild == [state |-> "none", status |-> 0, sig |-> FALSE, signals |-> 0]
NoThreads == [t \in {1} |-> Idle(1)]

\* BaseSubprocessTransport.__init__ with the streams of piped set to PIPE
Transp_init(piped, kind, waiter) ==
    [transp |-> [closed |-> FALSE, returncode |-> None,
                 exit_waiters |-> Some(<<>>), pending_calls |-> Some(<<>>),
                 pipes |-> [fd \in piped |-> FALSE], finished |-> FALSE,
                 proc |-> TRUE, protocol |-> TRUE, loop |-> TRUE],
     protos |-> [fd \in Fds |-> NoProto],
     ep |-> [fd \in Fds |-> NoPipe],
     ready |-> <<Handle("task._step", -1, None)>>,
     ntodo |-> 0,
     task |-> [pc |-> "start", fd |-> -1, waiter |-> waiter],
     hlog |-> [o \in Objects |-> <<>>],
     os |-> NoOs,
     waits |-> <<>>,
     errors |-> {},
     watcher |-> Watcher_init(kind),
     child |-> [p \in Pids |-> IF p = Pid THEN Running ELSE NoChild],
     sigs |-> NoSignals(TRUE)]

\* _UnixSelectorEventLoop._make_subprocess_transport: the transport is
\* constructed and registered inside the watcher's context; by then the
\* child is running (c = Running) or has already terminated.
make_subprocess_transport(piped, kind, waiter, c) ==
    LET s0 == Transp_init(piped, kind, waiter)
        s1 == CallWatcher(s0, PcEnter(kind), 0)
        s2 == [s1 EXCEPT !.child[Pid] = c]
        s3 == CallWatcher(s2, PcAdd(kind), Pid)
    IN  CallWatcher(s3, PcExit(kind), 0)

\* The statuses a child of a subprocess transport ends with by itself.
OwnStatuses == {7 * 256}

\* The sets of piped streams the model covers: at most two at a time.
PipedSets == {{}, {STDIN}, {STDOUT}, {STDIN, STDOUT}, {STDOUT, STDERR}}

InitT ==
    \E piped \in PipedSets, kind \in {"Safe"},
       waiter \in {"pending"},
       c \in {Running} \cup {Zombie(st) : st \in OwnStatuses} :
        /\ Starts(make_subprocess_transport(piped, kind, waiter, c))
        /\ threads = NoThreads
        /\ calls = NoCalls

(***************************************************************************)
(* Actions.                                                                *)
(***************************************************************************)
\* The user calls a method: at most MaxCalls calls in all.
MayCall == calls[<<"any", -1>>] < MaxCalls
Called(name, fd) ==
    calls' = [calls EXCEPT ![<<name, fd>>] = @ + 1, ![<<"any", -1>>] = @ + 1]

\* The pipe transports the user can reach: a transport of its own, or
\* get_pipe_transport(fd) of a subprocess transport once the pipe is wired.
Reachable(fd) ==
    /\ ep[fd].kind # "none"
    /\ ep[fd].owner = "sub" => fd \in DOMAIN transp.pipes /\ transp.pipes[fd]

\* The loop runs the next scheduled callback; the first one of an
\* iteration fixes what the iteration runs.
LoopRun ==
    /\ ready # <<>>
    /\ \E c \in Outcomes(World, Head(ready)) :
          Becomes(RunHandle(
              [World EXCEPT !.ready = Tail(ready),
                            !.ntodo = (IF ntodo = 0 THEN Len(ready) ELSE ntodo) - 1],
              Head(ready), c))
    /\ UNCHANGED <<threads, calls>>

\* Between two iterations the selector finds a descriptor readable; it
\* reports no descriptor that is closed.
PollReadable(fd) ==
    /\ ntodo = 0
    /\ ep[fd].reader
    /\ os[fd].closes = 0
    /\ ~Queued("pipe._read_ready", fd)
    /\ Becomes(call_soon(World, Handle("pipe._read_ready", fd, None)))
    /\ UNCHANGED <<threads, calls>>

\* Between two iterations the selector finds a descriptor writable.
PollWritable(fd) ==
    /\ ntodo = 0
    /\ ep[fd].writer
    /\ ~Queued("pipe._write_ready", fd)
    /\ Becomes(call_soon(World, Handle("pipe._write_ready", fd, None)))
    /\ UNCHANGED <<threads, calls>>

\* Between two iterations the loop finds SIGCHLD received.
PollSigChld ==
    /\ ntodo = 0
    /\ \E p \in Pids : child[p].sig
    /\ Becomes(call_soon(
           [World EXCEPT !.child = [p \in Pids |-> [child[p] EXCEPT !.sig = FALSE]]],
           Handle("watcher._sig_chld", -1, None)))
    /\ UNCHANGED <<threads, calls>>

\* The child process terminates by itself.
ChildExits ==
    /\ child[Pid].state = "running"
    /\ \E st \in OwnStatuses :
          Becomes([World EXCEPT !.child[Pid] = Dies(@, st)])
    /\ UNCHANGED <<threads, calls>>

\* transport.close()
TranspClose ==
    /\ MayCall
    /\ calls[<<"close", -1>>] < MaxCloses
    /\ Becomes(Transp_close(World))
    /\ Called("close", -1)
    /\ UNCHANGED threads

\* transport.wait()
TranspWait ==
    /\ MayCall
    /\ calls[<<"wait", -1>>] < 1
    /\ Becomes(Transp_wait(World))
    /\ Called("wait", -1)
    /\ UNCHANGED threads

\* close() of a pipe transport
PipeClose(fd) ==
    /\ MayCall
    /\ Reachable(fd)
    /\ calls[<<"close", fd>>] < MaxCloses
    /\ Becomes(Pipe_close(World, fd))
    /\ Called("close", fd)
    /\ UNCHANGED threads

\* The data of the k-th write(): n bytes no other write() passes, so that
\* any byte lost, repeated or out of place shows.
Data(k, n) == [i \in 1..n |-> k * (MaxChunk + 1) + i]

\* write(data) on a write pipe transport, with the outcome of the os.write
\* it may make
PipeWrite(fd, max, lens) ==
    /\ Reachable(fd) /\ ep[fd].kind = "w"
    /\ calls[<<"write", fd>>] < max
    /\ \E n \in lens :
          LET data == Data(calls[<<"write", fd>>], n)
          IN  \E r \in WriteResults(data) :
                /\ r # WouldBlock =>
                      /\ data # <<>>
                      /\ ep[fd].conn_lost = 0 /\ ~ep[fd].closing
                      /\ ep[fd].buffer = <<>>
                /\ Becomes(WritePipe_write(
                       [World EXCEPT !.os[fd].sent = @ \o data,
                                     !.os[fd].failed = @ \/ r = Fatal],
                       fd, data, r))
    /\ calls' = [calls EXCEPT ![<<"write", fd>>] = @ + 1]
    /\ UNCHANGED threads

NextT ==
    \/ LoopRun
    \/ \E fd \in Fds : PollReadable(fd)
    \/ PollWritable(STDIN)
    \/ PollSigChld
    \/ ChildExits
    \/ TranspClose
    \/ TranspWait
    \/ \E fd \in Fds : PipeClose(fd)
    \/ PipeWrite(STDIN, MaxPipeWrites, {1})

\* A subprocess transport, its pipes, its child and the watcher.
SpecT == InitT /\ [][NextT]_vars

(***************************************************************************)
(* The subprocess transport as its user sees it: wait() and its waiters,   *)
(* the signals, close(), and a watcher that notifies more than once.       *)
(***************************************************************************)
MaxWaits == 2       \* wait() calls on a subprocess transport
MaxNotifies == 1    \* notifications of an exit after the watcher's own
MaxCallsP == 3      \* calls the user makes on the transport in SpecP

\* The sets of piped streams of this specification.
PipedSetsP == {{}, {STDOUT}}

InitP ==
    \E piped \in PipedSetsP,
       c \in {Running} \cup {Zombie(st) : st \in OwnStatuses} :
        /\ Starts(make_subprocess_transport(piped, "Safe", "pending", c))
        /\ threads = NoThreads
        /\ calls = NoCalls

\* The user calls a method: at most MaxCallsP calls in all.
MayCallP == calls[<<"any", -1>>] < MaxCallsP

\* transport.close()
TranspCloseP ==
    /\ MayCallP
    /\ calls[<<"close", -1>>] < MaxCloses
    /\ Becomes(Transp_close(World))
    /\ Called("close", -1)
    /\ UNCHANGED threads

\* transport.wait(), up to MaxWaits times
TranspWaits ==
    /\ MayCallP
    /\ calls[<<"wait", -1>>] < MaxWaits
    /\ Becomes(Transp_wait(World))
    /\ Called("wait", -1)
    /\ UNCHANGED threads

\* The coroutine waiting in wait() is cancelled: waiter.cancel().
CancelWait(i) ==
    /\ i \in DOMAIN waits
    /\ waits[i].state = "pending"
    /\ Becomes([World EXCEPT !.waits[i].state = "cancelled"])
    /\ UNCHANGED <<threads, calls>>

\* transport.send_signal(sig)
TranspSendSignal ==
    /\ MayCallP
    /\ \E sig \in {SIGTERM, SIGKILL} : Becomes(Transp_send_signal(World, sig))
    /\ Called("send_signal", -1)
    /\ UNCHANGED threads

\* transport.terminate()
TranspTerminate ==
    /\ MayCallP
    /\ Becomes(Transp_terminate(World))
    /\ Called("terminate", -1)
    /\ UNCHANGED threads

\* transport.kill()
TranspKill ==
    /\ MayCallP
    /\ Becomes(Transp_kill(World))
    /\ Called("kill", -1)
    /\ UNCHANGED threads

\* The return code of a notification for a pid the watcher could not wait
\* for (ChildProcessError).
UnknownCode == 255

\* After the watcher has reported the exit, _child_watcher_callback is
\* called once more for the same transport, with another return code.
Renotify ==
    /\ watcher.invoked # <<>>
    /\ calls[<<"notify", -1>>] < MaxNotifies
    /\ Becomes(child_watcher_callback(World, UnknownCode))
    /\ calls' = [calls EXCEPT ![<<"notify", -1>>] = @ + 1]
    /\ UNCHANGED threads

NextP ==
    \/ LoopRun
    \/ PollReadable(STDOUT)
    \/ PollSigChld
    \/ ChildExits
    \/ TranspCloseP
    \/ TranspWaits
    \/ \E i \in 1..MaxWaits : CancelWait(i)
    \/ TranspSendSignal
    \/ TranspTerminate
    \/ TranspKill
    \/ Renotify

SpecP == InitP /\ [][NextP]_vars

(***************************************************************************)
(* The wiring of the pipes: _connect_pipes for every set of piped streams, *)
(* with and without a waiter, while the pipes already connected and the    *)
(* child produce events, the waiter is cancelled and the transport closed. *)
(***************************************************************************)
\* The sets of piped streams of this specification: all of them.
PipedSetsC == SUBSET Fds

InitC ==
    \E piped \in PipedSetsC, waiter \in {"none", "pending"},
       c \in {Running} \cup {Zombie(st) : st \in OwnStatuses} :
        /\ Starts(make_subprocess_transport(piped, "Safe", waiter, c))
        /\ threads = NoThreads
        /\ calls = NoCalls

\* The waiter given to the transport is cancelled: waiter.cancel().
CancelWaiter ==
    /\ task.waiter = "pending"
    /\ Becomes([World EXCEPT !.task.waiter = "cancelled"])
    /\ UNCHANGED <<threads, calls>>

NextC ==
    \/ LoopRun
    \/ \E fd \in Fds : PollReadable(fd)
    \/ PollSigChld
    \/ ChildExits
    \/ CancelWaiter

SpecC == InitC /\ [][NextC]_vars

(***************************************************************************)
(* A write pipe transport on its own (loop.connect_write_pipe).            *)
(***************************************************************************)
InitW ==
    /\ Starts(WritePipe_init(
           [Transp_init({}, "Safe", "none") EXCEPT
               !.ready = <<>>, !.task.pc = "done",
               !.child = [p \in Pids |-> NoChild]],
           STDIN, "plain"))
    /\ threads = NoThreads
    /\ calls = NoCalls

\* write_eof() of a write pipe transport
PipeWriteEof(fd) ==
    /\ MayCall
    /\ Reachable(fd) /\ ep[fd].kind = "w"
    /\ calls[<<"write_eof", fd>>] < 1
    /\ Becomes(WritePipe_write_eof(World, fd))
    /\ Called("write_eof", fd)
    /\ UNCHANGED threads

NextW ==
    \/ LoopRun
    \/ PollReadable(STDIN)
    \/ PollWritable(STDIN)
    \/ PipeWrite(STDIN, MaxWrites, 0..MaxChunk)
    \/ PipeClose(STDIN)
    \/ PipeWriteEof(STDIN)

SpecW == InitW /\ [][NextW]_vars

(***************************************************************************)
(* A pipe transport on its own, of either direction, and every call its    *)
(* user can make on it: a write endpoint (loop.connect_write_pipe) or a    *)
(* read endpoint (loop.connect_read_pipe).                                 *)
(***************************************************************************)
MaxCallsE == 3      \* calls other than write() the user makes on an endpoint
MaxWritesE == 2     \* write() calls on the write endpoint of SpecE

\* The world of a loop with no subprocess transport.
NoTransport ==
    [Transp_init({}, "Safe", "none") EXCEPT
        !.ready = <<>>, !.task.pc = "done",
        !.child = [p \in Pids |-> NoChild]]

InitE ==
    /\ \/ Starts(WritePipe_init(NoTransport, STDIN, "plain"))
       \/ Starts(ReadPipe_init(NoTransport, STDOUT, "plain"))
    /\ threads = NoThreads
    /\ calls = NoCalls

\* The user calls a method other than write(): at most MaxCallsE calls.
MayCallE == calls[<<"any", -1>>] < MaxCallsE

\* close() of the pipe transport
EpClose(fd) ==
    /\ MayCallE
    /\ Reachable(fd)
    /\ calls[<<"close", fd>>] < MaxCloses
    /\ Becomes(Pipe_close(World, fd))
    /\ Called("close", fd)
    /\ UNCHANGED threads

\* write_eof() of the write pipe transport
EpWriteEof(fd) ==
    /\ MayCallE
    /\ Reachable(fd) /\ ep[fd].kind = "w"
    /\ Becomes(WritePipe_write_eof(World, fd))
    /\ Called("write_eof", fd)
    /\ UNCHANGED threads

\* abort() of the write pipe transport
EpAbort(fd) ==
    /\ MayCallE
    /\ Reachable(fd) /\ ep[fd].kind = "w"
    /\ Becomes(WritePipe_abort(World, fd))
    /\ Called("abort", fd)
    /\ UNCHANGED threads

\* pause_reading() of the read pipe transport
EpPause(fd) ==
    /\ MayCallE
    /\ Reachable(fd) /\ ep[fd].kind = "r"
    /\ Becomes(ReadPipe_pause_reading(World, fd))
    /\ Called("pause_reading", fd)
    /\ UNCHANGED threads

\* resume_reading() of the read pipe transport
EpResume(fd) ==
    /\ MayCallE
    /\ Reachable(fd) /\ ep[fd].kind = "r"
    /\ Becomes(ReadPipe_resume_reading(World, fd))
    /\ Called("resume_reading", fd)
    /\ UNCHANGED threads

\* The callbacks that make a system call on their descriptor.
Syscalls == {"pipe._read_ready", "pipe._write_ready"}

\* LoopRun, the result of the callback's system call being recorded.
EpLoopRun ==
    /\ ready # <<>>
    /\ \E c \in Outcomes(World, Head(ready)) :
          LET h == Head(ready)
              s == [World EXCEPT
                      !.ready = Tail(ready),
                      !.ntodo = (IF ntodo = 0 THEN Len(ready) ELSE ntodo) - 1]
          IN  Becomes(RunHandle(
                  IF h.cb \in Syscalls
                  THEN [s EXCEPT !.os[h.fd].result = Some(c)]
                  ELSE s,
                  h, c))
    /\ UNCHANGED <<threads, calls>>

NextE ==
    \/ EpLoopRun
    \/ \E fd \in {STDIN, STDOUT} : PollReadable(fd)
    \/ PollWritable(STDIN)
    \/ PipeWrite(STDIN, MaxWritesE, 0..MaxChunk)
    \/ \E fd \in {STDIN, STDOUT} : EpClose(fd)
    \/ EpWriteEof(STDIN)
    \/ EpAbort(STDIN)
    \/ EpPause(STDOUT)
    \/ EpResume(STDOUT)

SpecE == InitE /\ [][NextE]_vars

(***************************************************************************)
(* Properties of the write pipe transport (SpecW).                         *)
(***************************************************************************)
IsPrefix(a, b) == Len(a) <= Len(b) /\ a = SubSeq(b, 1, Len(a))

\* The bytes os.write accepted followed by those still buffered.
Handed(fd) == os[fd].written \o Join(ep[fd].buffer)

\* C2: as long as no os.write failed and the peer did not close the pipe,
\* the bytes handed to the OS followed by the bytes still buffered are the
\* concatenation, in call order, of the chunks passed to write() (of those
\* passed before close() or write_eof(), if one was called), whatever the
\* results of os.write: full, partial, zero bytes or would-block; and
\* buffered bytes keep the descriptor registered for writing.
C2_WriteOrder ==
    ~os[STDIN].failed =>
        /\ IsPrefix(Handed(STDIN), os[STDIN].sent)
        /\ (calls[<<"close", STDIN>>] = 0 /\ calls[<<"write_eof", STDIN>>] = 0)
           => Handed(STDIN) = os[STDIN].sent
        /\ ep[STDIN].buffer # <<>> => ep[STDIN].writer

C2_Witness ==
    /\ ~os[STDIN].failed
    /\ Len(os[STDIN].sent) = MaxWrites * MaxChunk
    /\ os[STDIN].written # <<>>
    /\ Len(ep[STDIN].buffer) >= 2

(***************************************************************************)
(* A child watcher used from several threads: the loop thread handles      *)
(* SIGCHLD while each spawner thread forks a child inside the watcher's    *)
(* context and registers a callback for it, as _make_subprocess_transport  *)
(* does.  The methods advance one step at a time.                          *)
(***************************************************************************)
LoopThread == 0
Spawners == Pids
Threads == {LoopThread} \cup Spawners

\* A thread: the frame of the watcher method it is in, where it is in its
\* own program, and what it found when it began to register: the state of
\* its child and whether the child's code was in the zombie cache.
Thread(t, stage) ==
    [f |-> Idle(t), stage |-> stage, found |-> "none", cached |-> FALSE]

InitCW ==
    \E kind \in {"Safe", "Fast"} :
        /\ Starts([Transp_init({}, kind, "none") EXCEPT
                      !.ready = <<>>, !.task.pc = "done",
                      !.child = [p \in Pids |-> NoChild]])
        /\ threads = [t \in Threads |->
                         Thread(t, IF t = LoopThread THEN "loop" ELSE "start")]
        /\ calls = NoCalls

OnlyWatcher ==
    UNCHANGED <<transp, protos, ep, ready, ntodo, task, hlog, os, waits,
                errors, calls, sigs>>

Returned(t) == threads[t].f.pc = "done"

\* with watcher: (__enter__)
Enter(t) ==
    /\ threads[t].stage = "start"
    /\ threads' = [threads EXCEPT
                      ![t].stage = "entered",
                      ![t].f = Frame(t, PcEnter(watcher.kind), t, t)]
    /\ UNCHANGED <<watcher, child>>
    /\ OnlyWatcher

\* subprocess.Popen inside the context: the child of spawner t has pid t
Fork(t) ==
    /\ threads[t].stage = "entered" /\ Returned(t)
    /\ threads' = [threads EXCEPT ![t].stage = "forked"]
    /\ child' = [child EXCEPT ![t] = Running]
    /\ UNCHANGED watcher
    /\ OnlyWatcher

\* watcher.add_child_handler(pid, callback) is called
Register(t) ==
    /\ threads[t].stage = "forked"
    /\ threads' = [threads EXCEPT
                      ![t].stage = "registering",
                      ![t].found = child[t].state,
                      ![t].cached = ~IsNone(watcher.zombies[t]),
                      ![t].f = Frame(t, PcAdd(watcher.kind), t, t)]
    /\ UNCHANGED <<watcher, child>>
    /\ OnlyWatcher

\* the end of the with block (__exit__)
Leave(t) ==
    /\ threads[t].stage = "registering" /\ Returned(t)
    /\ threads' = [threads EXCEPT
                      ![t].stage = "left",
                      ![t].f = Frame(t, PcExit(watcher.kind), t, t)]
    /\ UNCHANGED <<watcher, child>>
    /\ OnlyWatcher

\* A thread makes the next step of the watcher method it is in.
Step(t) ==
    /\ LET x == [w |-> watcher, child |-> child, f |-> threads[t].f]
       IN  /\ CanStep(x)
           /\ \E pick \in Pickable(child) :
                 LET y == WatcherStep(x, pick)
                 IN  /\ watcher' = y.w
                     /\ child' = y.child
                     /\ threads' = [threads EXCEPT ![t].f = y.f]
    /\ OnlyWatcher

\* The statuses the child of spawner p may end with: the second child is
\* killed by SIGSEGV and dumps core, which no status of the first gives.
StatusesOf(p) == IF p = Pid THEN ExitStatuses ELSE {11 + 128}

\* The child of spawner p terminates.
ChildDies(p) ==
    /\ child[p].state = "running"
    /\ \E st \in StatusesOf(p) : child' = [child EXCEPT ![p] = Zombie(st)]
    /\ UNCHANGED <<watcher, threads>>
    /\ OnlyWatcher

\* The loop thread handles SIGCHLD: BaseChildWatcher._sig_chld
SigChld ==
    /\ Returned(LoopThread)
    /\ \E p \in Pids : child[p].sig
    /\ child' = [p \in Pids |-> [child[p] EXCEPT !.sig = FALSE]]
    /\ threads' = [threads EXCEPT
                      ![LoopThread].f =
                          Frame(LoopThread, PcWaitAll(watcher.kind), 0, 0)]
    /\ UNCHANGED watcher
    /\ OnlyWatcher

NextCW ==
    \/ \E t \in Spawners : Enter(t)
    \/ \E t \in Spawners : Fork(t)
    \/ \E t \in Spawners : Register(t)
    \/ \E t \in Spawners : Leave(t)
    \/ \E t \in Threads : Step(t)
    \/ \E p \in Pids : ChildDies(p)
    \/ SigChld

SpecCW == InitCW /\ [][NextCW]_vars

(***************************************************************************)
(* The Safe watcher while other code of the process reaps children: the    *)
(* threads of SpecCW, and a waitpid() called elsewhere.                    *)
(***************************************************************************)
InitSafe ==
    /\ Starts([Transp_init({}, "Safe", "none") EXCEPT
                  !.ready = <<>>, !.task.pc = "done",
                  !.child = [p \in Pids |-> NoChild]])
    /\ threads = [t \in Threads |->
                     Thread(t, IF t = LoopThread THEN "loop" ELSE "start")]
    /\ calls = NoCalls

\* Code outside the watcher calls waitpid() and gets the terminated child
\* p: the kernel forgets the pid and its status.
ReapedElsewhere(p) ==
    /\ child[p].state = "zombie"
    /\ child' = [child EXCEPT ![p].state = "elsewhere"]
    /\ UNCHANGED <<watcher, threads>>
    /\ OnlyWatcher

NextSafe ==
    \/ \E t \in Spawners : Enter(t)
    \/ \E t \in Spawners : Fork(t)
    \/ \E t \in Spawners : Register(t)
    \/ \E t \in Spawners : Leave(t)
    \/ \E t \in Threads : Step(t)
    \/ \E p \in Pids : ChildDies(p)
    \/ \E p \in Pids : ReapedElsewhere(p)
    \/ SigChld

SpecSafe == InitSafe /\ [][NextSafe]_vars

(***************************************************************************)
(* The signal handlers of a loop: any sequence of add_signal_handler and   *)
(* remove_signal_handler calls, cancellations of the handles and signals.  *)
(***************************************************************************)
MaxSignals == 2     \* signals received

\* The signal numbers passed to the methods: the signals and 0.
SignalArgs == Signals \cup {0}
\* The callbacks registered.
Callbacks == {1, 2}

InitS ==
    \E main \in BOOLEAN :
        /\ Starts([Transp_init({}, "Safe", "none") EXCEPT
                      !.ready = <<>>, !.task.pc = "done",
                      !.child = [p \in Pids |-> NoChild],
                      !.sigs = NoSignals(main)])
        /\ threads = NoThreads
        /\ calls = NoCalls

\* loop.add_signal_handler(sig, callback)
AddSignalHandler ==
    /\ \E sig \in SignalArgs, cb \in Callbacks :
          Becomes(add_signal_handler(World, sig, cb))
    /\ UNCHANGED <<threads, calls>>

\* loop.remove_signal_handler(sig)
RemoveSignalHandler ==
    /\ \E sig \in SignalArgs : Becomes(remove_signal_handler(World, sig))
    /\ UNCHANGED <<threads, calls>>

\* The handle add_signal_handler made for sig is cancelled.
CancelHandle(sig) ==
    /\ ~IsNone(sigs.handlers[sig])
    /\ ~Val(sigs.handlers[sig]).cancelled
    /\ Becomes([World EXCEPT !.sigs.handlers[sig] =
                   Some([Val(@) EXCEPT !.cancelled = TRUE])])
    /\ UNCHANGED <<threads, calls>>

\* The process receives sig while the loop's handler is installed for it:
\* the interpreter calls _handle_signal.
SignalArrives(sig) ==
    /\ sigs.installed[sig] = "_handle_signal"
    /\ calls[<<"signal", -1>>] < MaxSignals
    /\ Becomes(handle_signal(World, sig))
    /\ calls' = [calls EXCEPT ![<<"signal", -1>>] = @ + 1]
    /\ UNCHANGED threads

NextS ==
    \/ AddSignalHandler
    \/ RemoveSignalHandler
    \/ \E sig \in Signals : CancelHandle(sig)
    \/ \E sig \in Signals : SignalArrives(sig)
    \/ LoopRun

SpecS == InitS /\ [][NextS]_vars

\* _handle_signal is called for sig when the loop's handler is no longer
\* installed for it: the race the code assumes when it finds no handle.
LateSignal(sig) ==
    /\ sigs.installed[sig] # "_handle_signal"
    /\ sig \notin Uncatchable
    /\ calls[<<"signal", -1>>] < MaxSignals
    /\ Becomes(handle_signal(World, sig))
    /\ calls' = [calls EXCEPT ![<<"signal", -1>>] = @ + 1]
    /\ UNCHANGED threads

NextB ==
    \/ AddSignalHandler
    \/ RemoveSignalHandler
    \/ \E sig \in Signals : CancelHandle(sig)
    \/ \E sig \in Signals : SignalArrives(sig)
    \/ \E sig \in Signals : LateSignal(sig)
    \/ LoopRun

SpecB == InitS /\ [][NextB]_vars

(***************************************************************************)
(* The handlers of one pid: the spawner registers a callback for its child *)
(* and may register a second one for the same pid, the loop thread handles *)
(* SIGCHLD, and another thread may call remove_child_handler for the pid.  *)
(***************************************************************************)
MaxRemoves == 1     \* remove_child_handler calls
\* The second callback registered for a pid: none that a spawner registers
\* first.
Second == Cardinality(Pids) + 1

\* watcher.add_child_handler(pid, second callback) is called by the
\* spawner after its first registration has returned
Reregister(t) ==
    /\ threads[t].stage = "registering" /\ Returned(t)
    /\ threads[t].f.cb # Second
    /\ threads' = [threads EXCEPT
                      ![t].f = Frame(t, PcAdd(watcher.kind), t, Second)]
    /\ UNCHANGED <<watcher, child>>
    /\ OnlyWatcher

\* watcher.remove_child_handler(p), called by a thread of its own
Remove(p) ==
    /\ Len(watcher.removed) < MaxRemoves
    /\ child[p].state # "none"
    /\ watcher' = remove_child_handler(watcher, p)
    /\ UNCHANGED <<child, threads>>
    /\ OnlyWatcher

NextH ==
    \/ Enter(Pid)
    \/ Fork(Pid)
    \/ Register(Pid)
    \/ Reregister(Pid)
    \/ Leave(Pid)
    \/ \E t \in {LoopThread, Pid} : Step(t)
    \/ ChildDies(Pid)
    \/ SigChld
    \/ Remove(Pid)

SpecH == InitCW /\ [][NextH]_vars

(***************************************************************************)
(* Properties of the child watchers (SpecCW).                              *)
(***************************************************************************)
\* The invocations of the callback registered for pid p.
InvokedFor(p) == {i \in DOMAIN watcher.invoked : watcher.invoked[i].pid = p}

\* No thread is inside a watcher method and no SIGCHLD is pending.
Quiet ==
    /\ \A t \in Threads : Returned(t)
    /\ \A p \in Pids : ~child[p].sig

\* The exit code of a wait status, as the callback is to receive it.
CodeOf(status) ==
    IF status % 128 = 0 THEN (status \div 256) % 256
    ELSE IF status % 128 = 127 THEN status
    ELSE 0 - (status % 128)

\* C3: a callback registered for a pid whose process has terminated is
\* invoked exactly once, whether the pid is reaped before, after or during
\* the registration: while the process is terminated never more than once,
\* and once the threads have returned and no SIGCHLD is pending, once.
C3_ExactlyOnce ==
    \A t \in Spawners :
        /\ Cardinality(InvokedFor(t)) <= 1
        /\ (/\ threads[t].stage \in {"registering", "left"}
            /\ threads[t].found \in {"zombie", "reaped"}
            /\ Quiet)
           => Cardinality(InvokedFor(t)) = 1

\* Spawner t has registered its callback: add_child_handler has returned.
Registered(t) ==
    \/ threads[t].stage = "left"
    \/ threads[t].stage = "registering" /\ Returned(t)

\* C6: Fast watcher: when the code of a pid was in the zombie cache (the
\* pid was reaped inside a spawn scope before its callback was registered)
\* at the time its callback is registered within the scope, the
\* registration invokes the callback exactly once, with the exit code of
\* that pid's own status.
C6_ZombieRegistration ==
    \A t \in Spawners :
        threads[t].cached =>
            /\ watcher.kind = "Fast"
            /\ Cardinality(InvokedFor(t)) <= 1
            /\ Registered(t) =>
                  \E i \in DOMAIN watcher.invoked :
                      /\ InvokedFor(t) = {i}
                      /\ watcher.invoked[i].t = t
                      /\ watcher.invoked[i].cb = t
                      /\ watcher.invoked[i].returncode = CodeOf(child[t].status)

C6_Witness ==
    /\ \A t \in Spawners :
          /\ threads[t].cached
          /\ threads[t].stage = "left" /\ Returned(t)
          /\ Cardinality(InvokedFor(t)) = 1
    /\ child[Pid].status = SIGKILL
    /\ watcher.invoked[1].pid = 2

\* A reaped pid whose code a thread holds in a local variable: between
\* waitpid and the callback or the cache, or between the cache and the
\* callback.
InFlight(p) ==
    \E t \in Threads :
        /\ threads[t].f.pid = p
        /\ threads[t].f.pc \in {"fw_pop", "fw_lock", "fw_unknown", "fw_call",
                                "f_del", "f_call"}

\* The loop thread, holding the lock, deals with a pid it found no callback
\* for.
StoresUnknown ==
    /\ threads[LoopThread].f.pc = "fw_unknown"
    /\ threads'[LoopThread].f.pc # "fw_unknown"

\* C7: Fast watcher: the code of a reaped pid is never dropped: it went to
\* the callback, is in the zombie cache, was reported as unknown, or is on
\* its way; a pid found without a callback is stored in the cache, with the
\* code of its own status, when the spawn-scope count is greater than zero;
\* and it leaves the cache only when a handler for it registers or when the
\* count has dropped to zero.
C7_ZombieKept ==
    /\ [](watcher.kind = "Fast" =>
            \A p \in Pids :
                /\ child[p].state = "reaped" =>
                      \/ InvokedFor(p) # {}
                      \/ ~IsNone(watcher.zombies[p])
                      \/ p \in watcher.unknown
                      \/ InFlight(p)
                /\ ~IsNone(watcher.zombies[p]) =>
                      /\ child[p].state = "reaped"
                      /\ watcher.zombies[p] = Some(CodeOf(child[p].status)))
    /\ [][(watcher.kind = "Fast" /\ StoresUnknown /\ watcher.forks > 0) =>
            watcher'.zombies[threads[LoopThread].f.pid] =
                Some(CodeOf(child[threads[LoopThread].f.pid].status))]_vars
    /\ [][\A p \in Pids :
            (~IsNone(watcher.zombies[p]) /\ IsNone(watcher'.zombies[p])) =>
                \/ /\ threads[p].stage = "registering"
                   /\ threads[p].f.pc = "f_zpop"
                   /\ threads'[p].f.pc = "f_del"
                \/ watcher.forks = 0 /\ watcher'.forks = 0]_vars

C7_Witness ==
    /\ watcher.kind = "Fast"
    /\ watcher.zombies[Pid] = Some(0 - SIGKILL)
    /\ threads[Pid].stage = "forked"
    /\ watcher.forks = 2
    /\ threads[2].stage = "left"

\* C8: both watchers deliver, for the status the OS reported for a pid, the
\* same exit code: minus the signal number when the child was killed by a
\* signal, the exit status when it exited, the raw status otherwise; the
\* Fast watcher also when the code went through the zombie cache; the Safe
\* watcher delivers 255 when the OS reported no status for the pid.
C8_SameCode ==
    \A i \in DOMAIN watcher.invoked :
        LET e == watcher.invoked[i]
        IN  IF ~IsNone(e.status)
            THEN /\ Val(e.status) = child[e.pid].status
                 /\ e.returncode = CodeOf(Val(e.status))
            ELSE IF watcher.kind = "Fast"
            THEN e.returncode = CodeOf(child[e.pid].status)
            ELSE e.returncode = 255

C8_Witness ==
    /\ watcher.kind = "Safe"
    /\ Len(watcher.invoked) = 2
    /\ \E i \in DOMAIN watcher.invoked :
          /\ watcher.invoked[i].status = Some(5 * 256 + 127)
          /\ watcher.invoked[i].returncode = 5 * 256 + 127
    /\ \E i \in DOMAIN watcher.invoked :
          /\ watcher.invoked[i].status = Some(11 + 128)
          /\ watcher.invoked[i].returncode = 0 - 11

(***************************************************************************)
(* Properties of the subprocess transport (SpecT).                         *)
(***************************************************************************)
Count(log, ev) == Cardinality({i \in DOMAIN log : log[i].ev = ev})
Piped == DOMAIN transp.pipes
Exited == ~IsNone(transp.returncode)
PipesReported == \A fd \in Piped : protos[fd].disconnected
\* Nothing is scheduled: the loop has run every callback.
LoopIdle == ready = <<>>

\* C1: the handler's connection_lost is delivered at most once; when it is
\* scheduled or delivered the returncode is set and every piped stream has
\* reported its disconnection; and once both hold and the loop has run its
\* callbacks, it has been delivered (exactly once).
C1_ConnectionLostOnce ==
    /\ Count(hlog[-1], "connection_lost") <= 1
    /\ (Count(hlog[-1], "connection_lost") = 1
          \/ Queued("transp._call_connection_lost", -1)
          \/ (~IsNone(transp.pending_calls)
                /\ \E i \in DOMAIN Val(transp.pending_calls) :
                      Val(transp.pending_calls)[i].cb = "transp._call_connection_lost"))
       => Exited /\ PipesReported
    /\ (Exited /\ PipesReported /\ LoopIdle)
       => Count(hlog[-1], "connection_lost") = 1

C1_Witness ==
    /\ Piped = {STDIN, STDOUT}
    /\ Count(hlog[-1], "connection_lost") = 1
    /\ Count(hlog[STDOUT], "pipe_data_received") = 1
    /\ calls[<<"any", -1>>] = 0

\* The child has terminated and its termination has been collected.
ChildReaped == child[Pid].state = "reaped"
Wired == task.pc = "done"

\* C4 (as claimed): process_exited is delivered exactly once per spawned
\* process: never twice, and once the child is collected and the loop has
\* run its callbacks, once.
C4_AsClaimed ==
    /\ Count(hlog[-1], "process_exited") <= 1
    /\ (ChildReaped /\ LoopIdle) => Count(hlog[-1], "process_exited") = 1

\* C4: the watcher invokes the callback registered for the pid at most once
\* and removes it on invocation; _process_exited runs at most once; the
\* handler's process_exited is delivered at most once, and exactly once when
\* the watcher has invoked the callback, the wiring of the pipes has
\* completed and the loop has run its callbacks.  When the wiring fails it
\* is not delivered.
C4_ProcessExitedOnce ==
    /\ Len(watcher.invoked) <= 1
    /\ Len(watcher.invoked) = 1 => IsNone(watcher.callbacks[Pid])
    /\ ChildReaped => Len(watcher.invoked) = 1
    /\ "AssertionError: _process_exited when returncode is set" \notin errors
    /\ Count(hlog[-1], "process_exited") <= 1
    /\ (Len(watcher.invoked) = 1 /\ LoopIdle /\ Wired)
       => Count(hlog[-1], "process_exited") = 1
    /\ task.pc = "failed" => Count(hlog[-1], "process_exited") = 0

C4_Witness ==
    /\ Piped = {STDOUT, STDERR}
    /\ Count(hlog[-1], "process_exited") = 1
    /\ Len(watcher.invoked) = 1
    /\ ~transp.finished

\* A second (or later) call of close() on object o takes place.
SecondClose(o) ==
    /\ calls[<<"close", o>>] >= 1
    /\ calls'[<<"close", o>>] = calls[<<"close", o>>] + 1

SchedulesNothing ==
    /\ ready' = ready
    /\ transp'.pending_calls = transp.pending_calls
    /\ hlog' = hlog

NoDuplicateLostNext ==
    /\ Count(hlog'[-1], "connection_lost") <= 1
    /\ \A fd \in Fds : /\ Count(hlog'[fd], "pipe_connection_lost") <= 1
                       /\ os'[fd].closes <= 1

\* C5 (as claimed): a second close() of a pipe transport or of the
\* subprocess transport schedules nothing, and no connection_lost is
\* delivered twice.
C5_AsClaimed ==
    [][/\ NoDuplicateLostNext
       /\ \A o \in Objects : SecondClose(o) => SchedulesNothing]_vars

\* The pipes a close() of the subprocess transport closes: those stored in
\* the stream map that are not closing yet.
OpenPipes == {fd \in Piped : transp.pipes[fd] /\ ~ep[fd].closing}

\* C5: no connection_lost is delivered twice, whatever close() calls are
\* made; a second close() of a pipe transport schedules nothing; a second
\* close() of the subprocess transport schedules nothing for a pipe that is
\* closing already: all it may schedule is the disconnection, once, of pipes
\* stored in the stream map since the previous close(), whose readiness
\* callbacks still waiting in the loop are cancelled.
C5_CloseIdempotent ==
    [][/\ NoDuplicateLostNext
       /\ \A fd \in Fds : SecondClose(fd) => SchedulesNothing
       /\ SecondClose(-1) =>
            /\ OpenPipes = {} => SchedulesNothing
            /\ hlog' = hlog
            /\ transp'.pending_calls = transp.pending_calls
            /\ Len(ready') >= Len(ready)
            /\ \A i \in DOMAIN ready :
                  \/ ready'[i] = ready[i]
                  \/ /\ ready[i].cb \in {"pipe._read_ready", "pipe._write_ready"}
                     /\ ready[i].fd \in OpenPipes
                     /\ ready'[i] = [ready[i] EXCEPT !.cb = "Handle.cancelled"]
            /\ \A i \in (Len(ready) + 1)..Len(ready') :
                  /\ ready'[i].cb = "pipe._call_connection_lost"
                  /\ ready'[i].fd \in OpenPipes
                  /\ \A j \in (Len(ready) + 1)..Len(ready') :
                        ready'[j].fd = ready'[i].fd => j = i]_vars

C5_Witness ==
    /\ calls[<<"close", -1>>] = 2
    /\ Piped = {STDIN, STDOUT}
    /\ Count(hlog[-1], "connection_lost") = 1

\* C9: with no piped stream the exit of the process alone completes the
\* teardown: the handler receives connection_made, process_exited and
\* connection_lost(None) in this order and nothing else, and wait()
\* resolves to the exit code.
C9_Teardown == <<Event("connection_made", -1, None),
                 Event("process_exited", -1, None),
                 Event("connection_lost", -1, None)>>

C9_NoPipesExitCompletes ==
    Piped = {} =>
        /\ \A fd \in Fds : hlog[fd] = <<>>
        /\ Len(hlog[-1]) <= 3
        /\ hlog[-1] = SubSeq(C9_Teardown, 1, Len(hlog[-1]))
        /\ (ChildReaped /\ LoopIdle) =>
              /\ hlog[-1] = C9_Teardown
              /\ transp.finished
              /\ transp.returncode = Some(compute_returncode(child[Pid].status))
        /\ \A i \in DOMAIN waits :
              Exited => /\ waits[i].state = "done"
                        /\ waits[i].result = transp.returncode

C9_Witness ==
    /\ Piped = {}
    /\ hlog[-1] = C9_Teardown
    /\ calls[<<"close", -1>>] = 0
    /\ waits # <<>> /\ waits[1].registered /\ waits[1].result = Some(7)

\* C10: when the transport is finished the returncode is set and every
\* entry of the stream map is a wired endpoint that has signalled its
\* disconnection; and finished, once true, stays true.
C10_Finished ==
    /\ [](transp.finished =>
            /\ ~IsNone(transp.returncode)
            /\ \A fd \in Piped : /\ transp.pipes[fd]
                                 /\ protos[fd].exists
                                 /\ protos[fd].disconnected)
    /\ [][transp.finished => transp'.finished]_vars

C10_Witness ==
    /\ transp.finished
    /\ Piped = {STDIN, STDOUT}
    /\ Count(hlog[-1], "connection_lost") = 0

(***************************************************************************)
(* Properties of the subprocess transport as its user sees it (SpecP).     *)
(***************************************************************************)
\* The loop is running the callback cb of the subprocess transport.
Running_(cb) ==
    /\ ready # <<>>
    /\ Head(ready).cb = cb
    /\ IsPrefix(Tail(ready), ready')
    /\ calls' = calls

\* C11: the returncode of the transport is set exactly once: it changes
\* only in a step in which the loop runs _process_exited on a transport
\* that has none yet, to the code that call was given; close(), wait(),
\* the signals, a pipe's disconnection and a second notification leave the
\* code recorded as it is.
C11_ReturncodeOnce ==
    [][transp'.returncode # transp.returncode =>
          /\ IsNone(transp.returncode)
          /\ Running_("transp._process_exited")
          /\ transp'.returncode = Head(ready).arg]_vars

\* The exit code 7 is recorded and stays after a second notification with
\* 255 was refused, the stdout pipe was lost, and wait() and close() were
\* called after the exit.
C11_Witness ==
    /\ transp.returncode = Some(7)
    /\ "AssertionError: _process_exited when returncode is set" \in errors
    /\ STDOUT \in DOMAIN transp.pipes /\ protos[STDOUT].disconnected
    /\ transp.closed /\ child[Pid].signals = 0
    /\ \E i \in DOMAIN waits : ~waits[i].registered

\* The user calls wait() in this step.
WaitCalled == calls'[<<"wait", -1>>] = calls[<<"wait", -1>>] + 1

\* The waiters in self._exit_waiters, none once the list is dropped.
ExitWaiters ==
    IF IsNone(transp.exit_waiters) THEN {}
    ELSE {Val(transp.exit_waiters)[k] : k \in DOMAIN Val(transp.exit_waiters)}

\* C12: a wait() made once the exit code is recorded returns that code at
\* once and registers no waiter; a wait() made before registers a pending
\* waiter; a waiter that has a result has the recorded exit code, and once
\* the code is recorded no waiter is pending: each is resolved or cancelled.
C12_Wait ==
    /\ [](\A i \in DOMAIN waits :
            /\ waits[i].state = "done" =>
                  ~IsNone(transp.returncode) /\ waits[i].result = transp.returncode
            /\ ~waits[i].registered => waits[i].state = "done"
            /\ waits[i].state = "pending" =>
                  IsNone(transp.returncode) /\ i \in ExitWaiters)
    /\ [][WaitCalled =>
            /\ Len(waits') = Len(waits) + 1
            /\ SubSeq(waits', 1, Len(waits)) = waits
            /\ IF IsNone(transp.returncode)
               THEN /\ waits'[Len(waits')] =
                         [state |-> "pending", result |-> None,
                          registered |-> TRUE]
                    /\ transp'.exit_waiters =
                         Some(Append(Val(transp.exit_waiters), Len(waits')))
               ELSE /\ waits'[Len(waits')] =
                         [state |-> "done", result |-> transp.returncode,
                          registered |-> FALSE]
                    /\ transp'.exit_waiters = transp.exit_waiters]_vars

\* A waiter registered before the exit was resolved with the exit code,
\* and a wait() made after the exit returned the code without a waiter.
C12_Witness ==
    /\ Len(waits) = 2
    /\ waits[1].registered /\ waits[1].state = "done"
    /\ waits[1].result = Some(7)
    /\ ~waits[2].registered /\ waits[2].result = Some(7)

\* C13: a waiter cancelled before the exit is passed over when the exit
\* code arrives: it stays cancelled and without a result, _process_exited
\* raises nothing because of it, and the waiters registered with it that
\* were not cancelled are resolved with the code.
C13_CancelledSkipped ==
    /\ [][\A i \in DOMAIN waits :
            waits[i].state = "cancelled" =>
                waits'[i] = waits[i] /\ IsNone(waits[i].result)]_vars
    /\ [][(IsNone(transp.returncode) /\ ~IsNone(transp'.returncode)) =>
            /\ errors' = errors
            /\ \A i \in DOMAIN waits :
                  waits[i].state = "pending" =>
                      /\ waits'[i].state = "done"
                      /\ waits'[i].result = transp'.returncode]_vars

\* Of two waiters the first was cancelled and the second resolved by the
\* exit; nothing was raised.
C13_Witness ==
    /\ Len(waits) = 2
    /\ waits[1].state = "cancelled"
    /\ waits[2].state = "done" /\ waits[2].result = Some(7)
    /\ errors = {}

\* The user calls send_signal, terminate or kill in this step.
SignalCalled ==
    \E name \in {"send_signal", "terminate", "kill"} :
        calls'[<<name, -1>>] = calls[<<name, -1>>] + 1

\* The step changes nothing but the exceptions raised.
OnlyRaises ==
    UNCHANGED <<transp, protos, ep, ready, ntodo, task, hlog, os, waits,
                watcher, child, threads, sigs>>

\* C14: send_signal, terminate and kill on a transport that was closed
\* raise ValueError, and on a transport not closed whose process's exit is
\* recorded they raise ProcessLookupError; in both cases no signal is
\* delivered and the state of the transport, of its pipes and of the loop
\* stays as it was.
C14_SignalRefused ==
    [][SignalCalled =>
          /\ transp.closed =>
                /\ errors' =
                      errors \cup {"ValueError: operation on closed transport"}
                /\ OnlyRaises
          /\ (~transp.closed /\ ~IsNone(transp.returncode)) =>
                /\ errors' = errors \cup {"ProcessLookupError"}
                /\ OnlyRaises]_vars

\* A signal call after the recorded exit raised ProcessLookupError, and one
\* after close() raised ValueError; the child, which exited by itself, was
\* sent nothing.
C14_Witness ==
    /\ errors = {"ProcessLookupError",
                 "ValueError: operation on closed transport"}
    /\ transp.closed
    /\ transp.returncode = Some(7)
    /\ child[Pid].signals = 0

(***************************************************************************)
(* close() of the subprocess transport (SpecT).                            *)
(***************************************************************************)
\* The user calls close() on the subprocess transport in this step.
CloseCalled == calls'[<<"close", -1>>] = calls[<<"close", -1>>] + 1

\* C15: close() of the subprocess transport sets closed and nothing else
\* of the transport, leaves every wired pipe transport closing, and sends
\* SIGKILL exactly when no exit code is recorded: a running child dies of
\* it, a zombie takes it, and when the pid is already reaped the
\* ProcessLookupError of the kill is not raised to the caller and the
\* transport is as after a kill that succeeded.
C15_Close ==
    [][CloseCalled =>
          /\ transp' = [transp EXCEPT !.closed = TRUE]
          /\ \A fd \in DOMAIN transp.pipes :
                transp.pipes[fd] => ep'[fd].closing
          /\ "ProcessLookupError" \notin errors'
          /\ child' =
                IF ~IsNone(transp.returncode) \/ child[Pid].state = "reaped"
                THEN child
                ELSE IF child[Pid].state = "running"
                THEN [child EXCEPT ![Pid] =
                        [state |-> "zombie", status |-> SIGKILL, sig |-> TRUE,
                         signals |-> child[Pid].signals + 1]]
                ELSE [child EXCEPT ![Pid].signals = @ + 1]]_vars

\* close() was called while the watcher had reaped the child but the exit
\* code was not recorded yet: no signal was delivered, nothing was raised,
\* and the wired stdout pipe is closing.
C15_Witness ==
    /\ transp.closed
    /\ IsNone(transp.returncode)
    /\ child[Pid].state = "reaped" /\ child[Pid].signals = 0
    /\ STDOUT \in DOMAIN transp.pipes /\ transp.pipes[STDOUT]
    /\ ep[STDOUT].closing
    /\ errors = {}

(***************************************************************************)
(* Properties of the handlers of a pid (SpecH) and of the Fast watcher's   *)
(* lock (SpecCW).                                                          *)
(***************************************************************************)
\* The invocations of callback cb for pid p.
InvokedWith(p, cb) ==
    {i \in DOMAIN watcher.invoked :
        watcher.invoked[i].pid = p /\ watcher.invoked[i].cb = cb}

\* remove_child_handler is called in this step.
RemoveCalled == Len(watcher'.removed) = Len(watcher.removed) + 1

\* C16: remove_child_handler(pid) returns True and deletes the handler of
\* pid, and nothing else, when pid has one; it returns False and changes
\* nothing otherwise; and a callback removed with True is never invoked,
\* whatever the threads of the watcher were doing and whenever the child
\* terminates.
C16_Remove ==
    /\ [][RemoveCalled =>
            LET r == watcher'.removed[Len(watcher'.removed)]
            IN  /\ r.result = ~IsNone(watcher.callbacks[r.pid])
                /\ r.cb = watcher.callbacks[r.pid]
                /\ watcher'.callbacks =
                      [watcher.callbacks EXCEPT ![r.pid] = None]
                /\ watcher' = [watcher EXCEPT !.callbacks = watcher'.callbacks,
                                              !.removed = watcher'.removed]
                /\ UNCHANGED <<child, threads>>]_vars
    /\ [](\A i \in DOMAIN watcher.removed :
            watcher.removed[i].result =>
                InvokedWith(watcher.removed[i].pid,
                            Val(watcher.removed[i].cb)) = {})

\* With the Fast watcher the handler of the child was removed, the child
\* has terminated and was reaped as an unknown pid, every thread has
\* returned, and no callback was invoked.
C16_Witness ==
    /\ watcher.kind = "Fast"
    /\ watcher.removed # <<>> /\ watcher.removed[1].result
    /\ child[Pid].state = "reaped"
    /\ threads[Pid].stage = "left"
    /\ Quiet
    /\ watcher.invoked = <<>>

\* C17: a callback that a second add_child_handler for the same pid
\* replaced is never invoked, no callback is invoked twice, and once the
\* child is reaped and every thread has returned the callback registered
\* last has been invoked exactly once, unless it was removed.
C17_Replace ==
    /\ \A r \in watcher.replaced : InvokedWith(r.pid, r.cb) = {}
    /\ \A cb \in {Pid, Second} : Cardinality(InvokedWith(Pid, cb)) <= 1
    /\ (/\ watcher.replaced # {}
        /\ child[Pid].state = "reaped"
        /\ Quiet
        /\ \A i \in DOMAIN watcher.removed : ~watcher.removed[i].result)
            => Cardinality(InvokedWith(Pid, Second)) = 1

\* The steps of the Fast watcher that read or modify self._forks or
\* self._zombies: the counter in __enter__, __exit__ and the assert of
\* add_child_handler, the cache in __exit__, add_child_handler and
\* _do_waitpid_all.
TouchesForksOrZombies(pc) ==
    pc \in {"enter_inc", "exit_dec", "exit_clear", "f_add", "f_zpop",
            "fw_unknown"}

\* C18: a thread that is about to read or modify the spawn-scope counter
\* or the zombie cache of the Fast watcher holds the watcher's lock.
C18_LockHeld ==
    \A t \in Threads :
        TouchesForksOrZombies(threads[t].f.pc) => watcher.lock = Some(t)

(***************************************************************************)
(* Properties of the signal handlers of the loop (SpecS).                  *)
(***************************************************************************)
\* The table _signal_handlers is empty.
TableEmpty == \A sig \in Signals : IsNone(sigs.handlers[sig])

\* This step deletes an entry of the table.
HandlerRemoved ==
    \E sig \in Signals :
        ~IsNone(sigs.handlers[sig]) /\ IsNone(sigs'.handlers[sig])

\* C19: whenever the table of signal handlers is empty the wakeup
\* descriptor is cleared; a step that removes a handler leaves it cleared
\* when that was the last handler and set when others remain.
C19_WakeupCleared ==
    /\ [](TableEmpty => ~sigs.wakeup)
    /\ [][HandlerRemoved =>
            sigs'.wakeup = (\E sig \in Signals : ~IsNone(sigs'.handlers[sig]))
       ]_vars

\* A handler was registered and its callback has run for a signal; the
\* table is empty again, the wakeup descriptor cleared and the default
\* handlers are installed.
C19_Witness ==
    /\ hlog[-1] # <<>>
    /\ TableEmpty
    /\ ~sigs.wakeup
    /\ sigs.installed = NoSignals(TRUE).installed

Registrations(fd) ==
    (IF ep[fd].reader THEN 1 ELSE 0) + (IF ep[fd].writer THEN 1 ELSE 0)

\* C21 as claimed: in every reachable state at most one readiness
\* registration, reader or writer, is active on the descriptor of an endpoint.
C21_AsClaimed == \A fd \in Fds : Registrations(fd) <= 1

\* C21, amended: a read endpoint has at most one readiness registration, its
\* reader; a write endpoint has at most two, the reader with which it
\* watches for the peer closing the pipe and, only while its buffer holds
\* unwritten data, a writer.
C21_Registrations ==
    \A fd \in Fds :
        /\ ep[fd].kind = "none" => Registrations(fd) = 0
        /\ ep[fd].kind = "r" => ~ep[fd].writer
        /\ ep[fd].kind = "w" => (ep[fd].writer => ep[fd].buffer # <<>>)

\* A write endpoint registered for reading and for writing at once, its
\* buffer holding the rest of a partial write.
C21_Witness ==
    /\ ep[STDIN].kind = "w"
    /\ ep[STDIN].reader /\ ep[STDIN].writer
    /\ ep[STDIN].buffer # <<>>
    /\ os[STDIN].written # <<>>

\* C22: the descriptor of an endpoint is closed at most once and only by the
\* call that has invoked the protocol's connection_lost, whatever close,
\* write_eof, abort, peer-close, end-of-file and fatal-error events occur;
\* and it is closed (once) as soon as the endpoint is closing, no data
\* awaits in its buffer and the loop has run the callbacks scheduled.
C22_ClosedOnce ==
    \A fd \in Fds :
        /\ os[fd].closes <= 1
        /\ os[fd].closes = Count(hlog[fd], "connection_lost")
        /\ (ep[fd].closing /\ ep[fd].buffer = <<>> /\ LoopIdle)
           => os[fd].closes = 1

\* abort() was called twice on a write endpoint and the loop has run both
\* _call_connection_lost scheduled: the second one raised, the descriptor
\* is closed once.
C22_Witness ==
    /\ calls[<<"abort", STDIN>>] = 2
    /\ LoopIdle
    /\ os[STDIN].closes = 1
    /\ "AttributeError: pipe._protocol is None" \in errors

\* The loop runs the callback cb of stream fd in this step (and the
\* selector does not just queue another callback behind it).
Runs(cb, fd) ==
    /\ ready # <<>>
    /\ Head(ready).cb = cb /\ Head(ready).fd = fd
    /\ calls' = calls
    /\ ~(Len(ready') = Len(ready) + 1 /\ Head(ready') = Head(ready))

\* The loop runs _read_ready of the read endpoint fd, and os.read gives r.
Reads(fd, r) ==
    /\ ep[fd].kind = "r"
    /\ Runs("pipe._read_ready", fd)
    /\ os'[fd].result = Some(r)

\* Position of the first event ev in a log, 0 if there is none.
First(log, ev) ==
    IF \E i \in DOMAIN log : log[i].ev = ev
    THEN CHOOSE i \in DOMAIN log :
            log[i].ev = ev /\ \A j \in 1..(i - 1) : log[j].ev # ev
    ELSE 0

\* C27: an empty read makes the read endpoint closing, removes its read
\* registration and schedules eof_received and then
\* _call_connection_lost(None), delivering nothing by itself; a non-empty
\* read is delivered as data_received and changes nothing of the endpoint
\* or of the loop; and the handler gets eof_received at most once, before
\* connection_lost and with no data_received after it.
C27_Eof ==
    /\ [][\A fd \in Fds :
            /\ Reads(fd, Ok) =>
                  /\ ep'[fd] = [ep[fd] EXCEPT !.closing = TRUE,
                                              !.reader = FALSE]
                  /\ ready' = Tail(ready) \o
                        <<Handle("pipe.protocol.eof_received", fd, None),
                          Handle("pipe._call_connection_lost", fd, None)>>
                  /\ hlog' = hlog
            /\ Reads(fd, 1) =>
                  /\ ep' = ep
                  /\ ready' = Tail(ready)
                  /\ hlog' = [hlog EXCEPT ![fd] =
                        Append(@, Event("data_received", fd,
                                        <<os'[fd].reads>>))]]_vars
    /\ [](\A fd \in Fds :
            LET e == First(hlog[fd], "eof_received")
            IN  e > 0 =>
                  /\ Count(hlog[fd], "eof_received") = 1
                  /\ \A j \in DOMAIN hlog[fd] :
                        /\ hlog[fd][j].ev = "data_received" => j < e
                        /\ hlog[fd][j].ev = "connection_lost" => j > e)

\* The handler of a read endpoint has received data, then eof_received,
\* then connection_lost(None), and the descriptor is closed.
C27_Witness ==
    /\ Len(hlog[STDOUT]) = 4
    /\ hlog[STDOUT][2].ev = "data_received"
    /\ hlog[STDOUT][3].ev = "eof_received"
    /\ hlog[STDOUT][4] = Event("connection_lost", STDOUT, None)
    /\ os[STDOUT].closes = 1

\* C28: a transient error of os.read (would-block, interrupted) changes
\* nothing of the read endpoint, schedules nothing and delivers nothing;
\* any other error makes the endpoint closing, removes its read
\* registration and schedules one _call_connection_lost carrying the error.
C28_ReadErrors ==
    [][\A fd \in Fds :
          /\ Reads(fd, WouldBlock) =>
                /\ ep' = ep
                /\ ready' = Tail(ready)
                /\ hlog' = hlog
                /\ errors' = errors
          /\ Reads(fd, Fatal) =>
                /\ ep'[fd] = [ep[fd] EXCEPT !.closing = TRUE,
                                            !.reader = FALSE]
                /\ ready' = Tail(ready) \o
                      <<Handle("pipe._call_connection_lost", fd, Some(EPIPE))>>
                /\ hlog' = hlog
                /\ errors' = errors]_vars

\* The user calls the method name of the pipe transport fd in this step.
EpCalled(name, fd) == calls'[<<name, fd>>] = calls[<<name, fd>>] + 1

\* The loop's FIFO after the step is the one before it, but for handles of
\* _read_ready that the step cancelled: nothing was scheduled.
NothingScheduled ==
    /\ Len(ready') = Len(ready)
    /\ \A i \in DOMAIN ready :
          \/ ready'[i] = ready[i]
          \/ /\ ready[i].cb = "pipe._read_ready"
             /\ ready'[i] = [ready[i] EXCEPT !.cb = "Handle.cancelled"]

\* C29: pause_reading leaves the read endpoint without read registration
\* and resume_reading leaves it with one (on an endpoint whose connection
\* is lost already they raise AttributeError instead and change nothing);
\* neither changes the closing flag or anything else of the endpoint,
\* closes the descriptor, delivers anything to the handler or schedules a
\* callback.
C29_PauseResume ==
    [][\A fd \in Fds :
          (EpCalled("pause_reading", fd) \/ EpCalled("resume_reading", fd)) =>
              /\ ep' = [ep EXCEPT ![fd].reader = ep'[fd].reader]
              /\ os' = os
              /\ hlog' = hlog
              /\ NothingScheduled
              /\ ep[fd].pipe =>
                    /\ ep'[fd].reader = EpCalled("resume_reading", fd)
                    /\ errors' = errors
              /\ ~ep[fd].pipe =>
                    /\ ep' = ep
                    /\ errors' =
                          errors \cup {"AttributeError: pipe._loop is None"}
      ]_vars

\* The read endpoint was paused while a _read_ready was queued, which is
\* cancelled, and then resumed: it is registered for reading, not closing,
\* its descriptor open.
C29_Witness ==
    /\ calls[<<"pause_reading", STDOUT>>] = 1
    /\ calls[<<"resume_reading", STDOUT>>] = 1
    /\ ep[STDOUT].reader /\ ~ep[STDOUT].closing
    /\ os[STDOUT].closes = 0
    /\ \E i \in DOMAIN ready : ready[i].cb = "Handle.cancelled"

\* C30: write() with non-empty data on a write endpoint that is closing or
\* has lost its connection adds one to the lost-write counter and does
\* nothing else: nothing is written to the descriptor, the buffer, the
\* registrations and the loop's FIFO stay as they are; write() with empty
\* data changes nothing at all.
C30_LostWrites ==
    [][\A fd \in Fds :
          EpCalled("write", fd) =>
              /\ (/\ os'[fd].sent # os[fd].sent
                  /\ (ep[fd].closing \/ ep[fd].conn_lost > 0)) =>
                    /\ ep' = [ep EXCEPT ![fd].conn_lost = @ + 1]
                    /\ os' = [os EXCEPT ![fd].sent = os'[fd].sent]
                    /\ UNCHANGED <<ready, ntodo, hlog, errors>>
              /\ os'[fd].sent = os[fd].sent =>
                    UNCHANGED <<ep, os, ready, ntodo, hlog, errors>>]_vars

\* write_eof() was called while the rest of a partial write was buffered,
\* and a later write() was dropped: the lost-write counter is 1, the
\* buffer and the write registration are still there.
C30_Witness ==
    /\ calls[<<"write", STDIN>>] = 2
    /\ ep[STDIN].closing
    /\ ep[STDIN].conn_lost = 1
    /\ ep[STDIN].buffer # <<>> /\ ep[STDIN].writer
    /\ Len(os[STDIN].sent) > Len(Handed(STDIN))

(***************************************************************************)
(* The spawn scopes of the Fast watcher (SpecCW).                          *)
(***************************************************************************)
\* Thread t is inside the watcher's context: its __enter__ has counted it
\* and its __exit__ has not yet discounted it.
InScope(t) ==
    \/ threads[t].stage = "entered" /\ threads[t].f.pc = "done"
    \/ threads[t].stage \in {"forked", "registering"}
    \/ threads[t].stage = "left"
          /\ threads[t].f.pc \in {"exit_lock", "exit_dec"}

\* The pids whose return code is in the zombie cache of watcher w.
Cached(w) == {p \in Pids : ~IsNone(w.zombies[p])}

\* Thread t makes a step of the watcher method it is in, from pc.
StepsAt(t, pc) == threads[t].f.pc = pc /\ threads'[t].f # threads[t].f

\* C23: with the Fast watcher, the zombie cache is empty whenever the count
\* of spawn scopes is zero and the lock is free; the count is the number
\* of threads inside the context; an __exit__ that leaves the count above
\* zero leaves the cache as it is, the __exit__ that brings it to zero
\* empties the cache, and apart from that a code leaves the cache only
\* when add_child_handler takes it for its pid.
C23_Scopes ==
    /\ [](watcher.kind = "Fast" =>
            /\ watcher.forks = Cardinality({t \in Spawners : InScope(t)})
            /\ (watcher.forks = 0 /\ IsNone(watcher.lock))
                  => Cached(watcher) = {})
    /\ [][watcher.kind = "Fast" =>
            /\ \A t \in Spawners :
                  /\ StepsAt(t, "exit_dec") =>
                        /\ watcher'.forks = watcher.forks - 1
                        /\ watcher'.zombies = watcher.zombies
                        /\ (watcher'.forks = 0 /\ Cached(watcher) # {})
                              => threads'[t].f.pc = "exit_clear"
                        /\ watcher'.forks # 0 => threads'[t].f.pc = "done"
                  /\ StepsAt(t, "exit_clear") =>
                        /\ watcher.forks = 0
                        /\ Cached(watcher') = {}
                        /\ watcher'.unknown =
                              watcher.unknown \cup Cached(watcher)
            /\ \A p \in Cached(watcher) \ Cached(watcher') :
                  \E t \in Spawners :
                      \/ StepsAt(t, "exit_clear")
                      \/ StepsAt(t, "f_zpop") /\ threads[t].f.pid = p
          ]_vars

\* The code of the first child is in the zombie cache, the second spawner
\* has left its context, which the first is still inside: the count is 1
\* and the cache was not cleared.
C23_Witness ==
    /\ watcher.kind = "Fast"
    /\ threads[2].stage = "left" /\ Returned(2)
    /\ InScope(1)
    /\ watcher.forks = 1
    /\ Cached(watcher) = {1}

(***************************************************************************)
(* The wiring of the pipes (SpecC).                                        *)
(***************************************************************************)
\* self._pipes[fd] holds the stream's endpoint.
Stored(fd) == fd \in Piped /\ transp.pipes[fd]

\* The wiring of the stream has started: its endpoint was constructed.
Begun(fd) == ep[fd].kind # "none"

\* protocol.connection_made is scheduled or was delivered.
ConnectionMadeScheduled ==
    \/ Queued("protocol.connection_made", -1)
    \/ Count(hlog[-1], "connection_made") > 0

\* C24: the pipes are wired in the order stdin, stdout, stderr.  A stream
\* that is no pipe never gets an endpoint; the wiring of a stream starts
\* only when every piped stream before it is stored in the stream map; a
\* stream is stored only by the step that resumes the task waiting for it,
\* stdin with a write endpoint and the others with a read endpoint; and
\* connection_made is scheduled only once every piped stream is stored, by
\* the step that ends the wiring.
C24_WiringOrder ==
    /\ [](/\ \A fd \in Fds \ Piped : ~Begun(fd)
          /\ \A fd \in Piped :
                /\ Begun(fd) => \A g \in Piped : g < fd => Stored(g)
                /\ Stored(fd) => Begun(fd)
                /\ Begun(fd) => ep[fd].kind = IF fd = STDIN THEN "w" ELSE "r"
          /\ task.pc = "await" =>
                task.fd \in Piped /\ Begun(task.fd) /\ ~Stored(task.fd)
          /\ ConnectionMadeScheduled =>
                task.pc = "done" /\ \A fd \in Piped : Stored(fd))
    /\ [][/\ \A fd \in Piped :
                /\ Stored(fd) => Stored(fd)'
                /\ (~Stored(fd) /\ Stored(fd)') =>
                      /\ Running_("task._step")
                      /\ task.pc = "await" /\ task.fd = fd
                /\ (~Begun(fd) /\ Begun(fd)') =>
                      /\ Running_("task._step")
                      /\ task'.pc = "await" /\ task'.fd = fd
          /\ (~ConnectionMadeScheduled /\ ConnectionMadeScheduled') =>
                /\ Running_("task._step")
                /\ task.pc \in {"start", "await"} /\ task'.pc = "done"
         ]_vars

\* All three streams are pipes; stdin and stdout are stored, the endpoint
\* of stderr is constructed and the task waits for it; connection_made is
\* not scheduled yet.
C24_Witness ==
    /\ Piped = Fds
    /\ Stored(STDIN) /\ Stored(STDOUT)
    /\ Begun(STDERR) /\ ~Stored(STDERR)
    /\ task.pc = "await" /\ task.fd = STDERR
    /\ ~ConnectionMadeScheduled

\* The callbacks the transport hands to _call, and connection_made.
HandlerCalls ==
    {"protocol.pipe_data_received", "protocol.pipe_connection_lost",
     "protocol.process_exited", "transp._call_connection_lost"}

HandlerCallbacks == HandlerCalls \cup {"protocol.connection_made"}

IsHandlerCallback(h) == h.cb \in HandlerCallbacks

\* The handler callbacks waiting in the loop, in the loop's order.
Handlers(q) == SelectSeq(q, IsHandlerCallback)

\* What the handler sees when the loop runs the callback.
Seen(h) ==
    Event(CASE h.cb = "protocol.connection_made" -> "connection_made"
            [] h.cb = "protocol.pipe_data_received" -> "pipe_data_received"
            [] h.cb = "protocol.pipe_connection_lost" -> "pipe_connection_lost"
            [] h.cb = "protocol.process_exited" -> "process_exited"
            [] OTHER -> "connection_lost",
          h.fd,
          IF h.cb \in {"protocol.connection_made", "protocol.process_exited"}
          THEN None ELSE h.arg)

\* C25: while _pending_calls is a list no handler callback is scheduled or
\* delivered, and the list only grows at its end.  The task step that ends
\* the wiring, with every piped stream stored, schedules connection_made and
\* then the pending calls in their order, and makes _pending_calls None,
\* which it stays.  From then on the handler callbacks waiting in the loop
\* form a queue: a step either adds callbacks at its end and delivers
\* nothing, or runs the first of them, delivering exactly that one.
C25_PendingCalls ==
    /\ [](~IsNone(transp.pending_calls) =>
            /\ Handlers(ready) = <<>>
            /\ \A o \in DOMAIN hlog : hlog[o] = <<>>
            /\ \A i \in DOMAIN Val(transp.pending_calls) :
                  Val(transp.pending_calls)[i].cb \in HandlerCalls)
    /\ [][/\ (~IsNone(transp.pending_calls) /\ ~IsNone(transp'.pending_calls))
                => IsPrefix(Val(transp.pending_calls),
                            Val(transp'.pending_calls))
          /\ (~IsNone(transp.pending_calls) /\ IsNone(transp'.pending_calls))
                => /\ Running_("task._step")
                   /\ task'.pc = "done"
                   /\ \A fd \in Piped : Stored(fd)'
                   /\ ready' = Tail(ready)
                                \o <<Handle("protocol.connection_made", -1, None)>>
                                \o Val(transp.pending_calls)
          /\ IsNone(transp.pending_calls) =>
                /\ IsNone(transp'.pending_calls)
                /\ \/ /\ IsPrefix(Handlers(ready), Handlers(ready'))
                      /\ hlog' = hlog
                   \/ /\ ready # <<>>
                      /\ IsHandlerCallback(Head(ready))
                      /\ IsPrefix(Tail(Handlers(ready)), Handlers(ready'))
                      /\ hlog' = [hlog EXCEPT ![Head(ready).fd] =
                                     Append(@, Seen(Head(ready)))]
         ]_vars

\* The wiring has ended with two calls pending: connection_made is in the
\* loop's queue, directly followed by the two, which differ.
C25_Witness ==
    /\ IsNone(transp.pending_calls)
    /\ \E i \in 1..(Len(ready) - 2) :
          /\ ready[i].cb = "protocol.connection_made"
          /\ ready[i + 1].cb \in HandlerCalls
          /\ ready[i + 2].cb \in HandlerCalls
          /\ ready[i + 1].cb # ready[i + 2].cb

\* C26: a failure of the wiring ends the task in one of its own steps, which
\* sets the exception on the waiter if there is one and it is not cancelled,
\* and otherwise leaves the waiter alone; the step raises nothing, schedules
\* nothing, leaves the child and the pending calls as they are, and after it
\* connection_made is neither scheduled nor delivered.  The waiter holds an
\* exception only after a failed wiring and a result only after a complete
\* one.
C26_WiringFails ==
    /\ [](/\ task.pc = "failed" =>
                /\ ~ConnectionMadeScheduled
                /\ ~IsNone(transp.pending_calls)
                /\ task.waiter \in {"none", "cancelled", "exception"}
          /\ task.waiter = "exception" => task.pc = "failed"
          /\ task.waiter = "result" => task.pc = "done")
    /\ [][/\ (task.pc # "failed" /\ task'.pc = "failed") =>
                /\ Running_("task._step")
                /\ task'.waiter = IF task.waiter = "pending"
                                  THEN "exception" ELSE task.waiter
                /\ errors' = errors
                /\ child' = child
                /\ ready' = Tail(ready)
                /\ transp'.pending_calls = transp.pending_calls
                /\ ep' = ep /\ os' = os /\ hlog' = hlog
          /\ task.pc = "failed" => task' = task
          /\ (ready # <<>> /\ Head(ready).cb = "task._step"
                 /\ ready' # ready) => errors' = errors
         ]_vars

\* The wiring failed at a later stream with stdin already stored: the
\* waiter holds the exception, the child still runs unsignalled, and the
\* loop has gone on to deliver nothing to the handler.
C26_Witness ==
    /\ task.pc = "failed"
    /\ task.waiter = "exception"
    /\ Stored(STDIN)
    /\ child[Pid] = Running
    /\ ready = <<>>
    /\ \A o \in DOMAIN hlog : hlog[o] = <<>>

(***************************************************************************)
(* The write endpoint (SpecE).                                             *)
(***************************************************************************)
\* C38: in every state between two operations a write endpoint is
\* registered for writing exactly when its buffer holds data, and the
\* chunks buffered are not empty; so _write_ready, whenever the loop runs
\* it, finds data to write and its assertion never fails.
C38_WriterIffBuffer ==
    /\ [](\A fd \in Fds :
            ep[fd].kind = "w" =>
              /\ ep[fd].writer <=> ep[fd].buffer # <<>>
              /\ \A i \in DOMAIN ep[fd].buffer : ep[fd].buffer[i] # <<>>
              /\ "AssertionError: Data should not be empty" \notin errors)
    /\ [][\A fd \in Fds :
            Runs("pipe._write_ready", fd) =>
              /\ ep[fd].writer
              /\ Join(ep[fd].buffer) # <<>>
              /\ os'[fd].result \in
                    {Some(r) : r \in WriteResults(Join(ep[fd].buffer))}]_vars

\* A flush has written the whole buffer of a write endpoint that is not
\* closing: the buffer is empty and the descriptor no longer registered
\* for writing, while the reader registration is still there.
C38_Witness ==
    /\ ep[STDIN].kind = "w" /\ ~ep[STDIN].closing
    /\ ~IsNone(os[STDIN].result) /\ Val(os[STDIN].result) > 0
    /\ ep[STDIN].buffer = <<>> /\ ~ep[STDIN].writer
    /\ ep[STDIN].reader
    /\ os[STDIN].written = os[STDIN].sent

\* The loop's queue q with the write-readiness callback of fd cancelled.
WriterCancelled(q, fd) ==
    [i \in DOMAIN q |->
        IF q[i].cb = "pipe._write_ready" /\ q[i].fd = fd
        THEN [q[i] EXCEPT !.cb = "Handle.cancelled"]
        ELSE q[i]]

\* _call_connection_lost of the endpoint is scheduled or has run.
LostScheduled(fd) ==
    \/ Queued("pipe._call_connection_lost", fd)
    \/ Count(hlog[fd], "connection_lost") > 0
    \/ ~ep[fd].pipe

\* C40: the loop runs _read_ready of a write endpoint (the peer closed the
\* pipe) only while the endpoint is registered for reading and no
\* connection_lost is scheduled or delivered; the step makes the endpoint
\* closing, empties its buffer, removes both registrations (a
\* write-readiness callback already queued is cancelled) and appends one
\* _call_connection_lost(None) to the loop's queue, whether or not a
\* write_eof was waiting for the buffer to drain; the reader registration
\* never comes back, so this happens at most once.
C40_PeerClose ==
    [][\A fd \in Fds :
          /\ (ep[fd].kind = "w" /\ Runs("pipe._read_ready", fd)) =>
                /\ ep[fd].reader
                /\ ~LostScheduled(fd)
                /\ ep'[fd] = [ep[fd] EXCEPT !.closing = TRUE,
                                            !.buffer = <<>>,
                                            !.reader = FALSE,
                                            !.writer = FALSE]
                /\ ready' = WriterCancelled(Tail(ready), fd) \o
                      <<Handle("pipe._call_connection_lost", fd, None)>>
                /\ hlog' = hlog /\ errors' = errors
                /\ os'[fd].written = os[fd].written
          /\ (ep[fd].kind = "w" /\ ~ep[fd].reader) => ~ep'[fd].reader]_vars

\* write_eof() was called with data buffered and then the peer closed the
\* pipe: the handler got connection_lost(None) once, the data was never
\* written, and neither close() nor abort() was called nor any write failed.
C40_Witness ==
    /\ ep[STDIN].kind = "w"
    /\ calls[<<"write_eof", STDIN>>] = 1
    /\ calls[<<"abort", STDIN>>] = 0 /\ calls[<<"close", STDIN>>] = 0
    /\ LoopIdle
    /\ hlog[STDIN] = <<Event("connection_made", STDIN, None),
                       Event("connection_lost", STDIN, None)>>
    /\ Len(os[STDIN].written) < Len(os[STDIN].sent)
    /\ ep[STDIN].conn_lost = 0
    /\ os[STDIN].closes = 1

\* The loop's queue q with the read-readiness callback of fd cancelled.
ReaderCancelled(q, fd) ==
    [i \in DOMAIN q |->
        IF q[i].cb = "pipe._read_ready" /\ q[i].fd = fd
        THEN [q[i] EXCEPT !.cb = "Handle.cancelled"]
        ELSE q[i]]

\* write() met a fatal error of os.write in this step.
WriteFails(fd) ==
    EpCalled("write", fd) /\ ~os[fd].failed /\ os'[fd].failed

\* _write_ready met a fatal error of os.write in this step.
FlushFails(fd) ==
    Runs("pipe._write_ready", fd) /\ os'[fd].result = Some(Fatal)

\* The _call_connection_lost calls of the endpoint that carry the error,
\* scheduled or run.
LostWith(fd, exc) ==
    Cardinality({i \in DOMAIN ready :
                    ready[i] = Handle("pipe._call_connection_lost", fd, exc)})
    + Cardinality({i \in DOMAIN hlog[fd] :
                    hlog[fd][i] = Event("connection_lost", fd, exc)})

\* C32: a fatal error of os.write, in write() or in _write_ready, finds no
\* connection_lost scheduled yet and ends the write endpoint: the step
\* makes it closing, counts one lost write, leaves the buffer empty and no
\* registration (a peer-close callback already queued is cancelled), writes
\* nothing and appends one _call_connection_lost carrying the error to the
\* loop's queue.  Afterwards the endpoint stays
\* closing with an empty buffer and no writer, _write_ready is not run
\* again and nothing more is written; the error is scheduled or delivered
\* at most once.
C32_FatalWrite ==
    /\ [][\A fd \in Fds : ep[fd].kind = "w" =>
            /\ (WriteFails(fd) \/ FlushFails(fd)) =>
                  /\ ~LostScheduled(fd)
                  /\ ep'[fd] = [ep[fd] EXCEPT !.closing = TRUE,
                                              !.buffer = <<>>,
                                              !.reader = FALSE,
                                              !.writer = FALSE,
                                              !.conn_lost = @ + 1]
                  /\ ep'[fd].conn_lost > 0
                  /\ ready' = ReaderCancelled(
                                  IF WriteFails(fd) THEN ready ELSE Tail(ready),
                                  fd)
                        \o <<Handle("pipe._call_connection_lost", fd,
                                    Some(EPIPE))>>
                  /\ os'[fd].written = os[fd].written
                  /\ hlog' = hlog /\ errors' = errors
            /\ os[fd].failed =>
                  /\ os'[fd].failed
                  /\ os'[fd].written = os[fd].written
                  /\ ~Runs("pipe._write_ready", fd)]_vars
    /\ [](\A fd \in Fds : ep[fd].kind = "w" =>
            /\ os[fd].failed =>
                  /\ ep[fd].closing
                  /\ ep[fd].buffer = <<>> /\ ~ep[fd].writer
            /\ LostWith(fd, Some(EPIPE)) <= 1
            /\ LostWith(fd, Some(EPIPE)) = 1 => ep[fd].conn_lost > 0)

\* A flush failed after a partial write: the handler got connection_lost
\* with the error, the rest of the data was dropped, and a later write()
\* was counted as lost.
C32_Witness ==
    /\ ep[STDIN].kind = "w"
    /\ os[STDIN].result = Some(Fatal)
    /\ os[STDIN].written # <<>>
    /\ Count(hlog[STDIN], "connection_lost") = 1
    /\ LostWith(STDIN, Some(EPIPE)) = 1
    /\ LoopIdle
    /\ ep[STDIN].conn_lost = 2
    /\ Len(os[STDIN].written) < Len(os[STDIN].sent)

\* The user calls write_eof() or close() on the endpoint in this step.
EofCalled(fd) == EpCalled("write_eof", fd) \/ EpCalled("close", fd)

\* What write_eof() and close() do, step by step: on a closing endpoint
\* nothing; with an empty buffer the endpoint becomes closing, loses its
\* reader and one _call_connection_lost(None) is appended to the loop's
\* queue; with data buffered the endpoint only becomes closing.
EofSteps ==
    [][\A fd \in Fds : (ep[fd].kind = "w" /\ EofCalled(fd)) =>
          /\ UNCHANGED <<os, hlog, errors>>
          /\ ep[fd].closing => UNCHANGED <<ep, ready>>
          /\ (~ep[fd].closing /\ ep[fd].buffer = <<>>) =>
                /\ ep'[fd] = [ep[fd] EXCEPT !.closing = TRUE,
                                            !.reader = FALSE]
                /\ ready' = ReaderCancelled(ready, fd) \o
                      <<Handle("pipe._call_connection_lost", fd, None)>>
          /\ (~ep[fd].closing /\ ep[fd].buffer # <<>>) =>
                /\ ep'[fd] = [ep[fd] EXCEPT !.closing = TRUE]
                /\ ready' = ready]_vars

\* connection_lost reaches the handler at most once, and once when the
\* endpoint is closing, its buffer empty and the loop has run its callbacks.
LostOnce ==
    [](\A fd \in Fds : ep[fd].kind = "w" =>
          /\ Count(hlog[fd], "connection_lost") <= 1
          /\ (ep[fd].closing /\ ep[fd].buffer = <<>> /\ LoopIdle)
                => Count(hlog[fd], "connection_lost") = 1)

\* The teardown of the endpoint is deferred: write_eof() or close() found
\* data in the buffer, which is still waiting to be written.
Deferred(fd) ==
    ep[fd].kind = "w" /\ ep[fd].closing /\ ep[fd].buffer # <<>>

\* A step that leaves the teardown deferred: nothing is scheduled or
\* delivered for the endpoint, and what is buffered is what was, less the
\* bytes the step wrote.
StaysDeferred(fd) ==
    /\ Deferred(fd)'
    /\ ~LostScheduled(fd)'
    /\ os'[fd].written \o Join(ep'[fd].buffer)
          = os[fd].written \o Join(ep[fd].buffer)

\* The flush that ends a deferred teardown: the whole buffer is written and
\* connection_lost(None) delivered by the same callback.
Drains(fd) ==
    /\ Runs("pipe._write_ready", fd)
    /\ os'[fd].written = os[fd].written \o Join(ep[fd].buffer)
    /\ ep'[fd].buffer = <<>> /\ ~ep'[fd].writer /\ ~ep'[fd].reader
    /\ hlog' = [hlog EXCEPT ![fd] =
                   Append(@, Event("connection_lost", fd, None))]
    /\ os'[fd].closes = 1

\* C31 as claimed: write_eof() or close() with an empty buffer schedules
\* connection_lost(None) at once and with data buffered defers it; a
\* deferred teardown ends only by the flush that writes the whole buffer
\* and delivers connection_lost(None), by a fatal error of a flush or by
\* the peer closing the pipe; connection_lost is delivered once.
C31_AsClaimed ==
    /\ EofSteps
    /\ LostOnce
    /\ [][\A fd \in Fds : Deferred(fd) =>
            \/ StaysDeferred(fd)
            \/ Drains(fd)
            \/ FlushFails(fd)
            \/ Runs("pipe._read_ready", fd)]_vars

\* C31, amended: as claimed, except that a deferred teardown also ends by
\* abort(), which like a fatal error and a peer close discards the buffer
\* and schedules connection_lost(None) with the data unwritten.
C31_Eof ==
    /\ EofSteps
    /\ LostOnce
    /\ [][\A fd \in Fds : Deferred(fd) =>
            \/ StaysDeferred(fd)
            \/ Drains(fd)
            \/ FlushFails(fd)
            \/ Runs("pipe._read_ready", fd)
            \/ /\ EpCalled("abort", fd)
               /\ ep'[fd].buffer = <<>> /\ ~ep'[fd].writer
               /\ os'[fd].written = os[fd].written
               /\ ready' = WriterCancelled(ReaderCancelled(ready, fd), fd) \o
                     <<Handle("pipe._call_connection_lost", fd, None)>>]_vars

\* write_eof() was called while data was buffered; a later flush wrote the
\* rest and the handler then got connection_lost(None), once, with
\* everything written.
C31_Witness ==
    /\ ep[STDIN].kind = "w"
    /\ calls[<<"write_eof", STDIN>>] = 1
    /\ calls[<<"abort", STDIN>>] = 0
    /\ ~IsNone(os[STDIN].result) /\ Val(os[STDIN].result) > 0
    /\ ~os[STDIN].failed /\ ep[STDIN].conn_lost = 0
    /\ hlog[STDIN] = <<Event("connection_made", STDIN, None),
                       Event("connection_lost", STDIN, None)>>
    /\ os[STDIN].written = os[STDIN].sent
    /\ Len(os[STDIN].written) >= 2

(***************************************************************************)
(* The read endpoint once it is closing (SpecE).                           *)
(***************************************************************************)
\* No data reaches the handler of a read endpoint that is closing.
NoDataOnceClosing ==
    [][\A fd \in Fds : (ep[fd].kind = "r" /\ ep[fd].closing) =>
          Count(hlog'[fd], "data_received")
              = Count(hlog[fd], "data_received")]_vars

\* C39: a read endpoint that is closing is not registered for reading and
\* forwards no more data to its handler, whatever pause_reading,
\* resume_reading and close calls follow.
C39_Closing ==
    /\ [](\A fd \in Fds :
            (ep[fd].kind = "r" /\ ep[fd].closing) => ~ep[fd].reader)
    /\ NoDataOnceClosing

(***************************************************************************)
(* The Safe watcher's polls (SpecCW).                                      *)
(***************************************************************************)
\* The pids with a callback in the watcher's table.
Tracked(w) == {p \in Pids : ~IsNone(w.callbacks[p])}

\* The pids a frame inside _do_waitpid_all is polling or has yet to poll.
ToPoll(f) == {f.pid} \cup {f.todo[i] : i \in DOMAIN f.todo}

\* The loop thread's notification starts: every tracked pid is to be polled.
PollsAll ==
    StepsAt(LoopThread, "s_all") =>
        IF Tracked(watcher) = {}
        THEN threads'[LoopThread].f.pc = "done"
        ELSE /\ threads'[LoopThread].f.pc = "s_waitpid"
             /\ ToPoll(threads'[LoopThread].f) = Tracked(watcher)

\* A poll of a pid whose process has not exited does nothing.
PollOfRunning ==
    \A t \in Threads :
        (/\ StepsAt(t, "s_waitpid")
         /\ child[threads[t].f.pid].state = "running") =>
            /\ watcher' = watcher
            /\ child' = child

\* C33: with the Safe watcher a notification polls every tracked pid; the
\* poll of a pid whose process has not exited changes nothing (the
\* callback is not invoked and stays in the table); the callback of a pid
\* whose process has exited is invoked at most once, with the exit code of
\* the process, is out of the table once it has been invoked, and has been
\* invoked once the threads have returned and no notification is pending.
C33_Notification ==
    /\ [][watcher.kind = "Safe" => PollsAll /\ PollOfRunning]_vars
    /\ [](watcher.kind = "Safe" =>
            \A p \in Pids :
                /\ child[p].state = "running" => InvokedFor(p) = {}
                /\ Cardinality(InvokedFor(p)) <= 1
                /\ \A i \in InvokedFor(p) :
                      /\ watcher.invoked[i].returncode
                            = CodeOf(child[p].status)
                      /\ IsNone(watcher.callbacks[p])
                /\ (/\ child[p].state \in {"zombie", "reaped"}
                    /\ Registered(p) /\ Quiet)
                      => Cardinality(InvokedFor(p)) = 1)

(***************************************************************************)
(* The Safe watcher and children reaped elsewhere (SpecSafe).              *)
(***************************************************************************)
\* C34: when code outside the watcher has reaped a tracked pid, the poll
\* of that pid does not raise but goes on with the code 255; the callback
\* of the pid is invoked at most once, with 255 and no status, is out of
\* the table once invoked, and has been invoked once its registration and
\* the notifications have returned; no error is recorded.
C34_ReapedElsewhere ==
    /\ [][\A t \in Threads :
            (/\ StepsAt(t, "s_waitpid")
             /\ child[threads[t].f.pid].state = "elsewhere") =>
                /\ threads'[t].f.pc = "s_pop"
                /\ threads'[t].f.rc = 255
                /\ watcher' = watcher /\ child' = child]_vars
    /\ [](/\ errors = {} /\ watcher.failed = {}
          /\ \A p \in Pids : child[p].state = "elsewhere" =>
                /\ Cardinality(InvokedFor(p)) <= 1
                /\ \A i \in InvokedFor(p) :
                      /\ watcher.invoked[i].returncode = 255
                      /\ IsNone(watcher.invoked[i].status)
                      /\ IsNone(watcher.callbacks[p])
                /\ (Registered(p) /\ Quiet)
                      => Cardinality(InvokedFor(p)) = 1)

\* Both children have terminated; the first was reaped elsewhere and its
\* callback got 255, the second was reaped by the watcher and its callback
\* got the code of its status; every thread has returned.
C34_Witness ==
    /\ child[1].state = "elsewhere" /\ child[2].state = "reaped"
    /\ Quiet
    /\ \E i, j \in DOMAIN watcher.invoked :
          /\ InvokedFor(1) = {i} /\ InvokedFor(2) = {j}
          /\ watcher.invoked[i].returncode = 255
          /\ watcher.invoked[j].returncode = CodeOf(child[2].status)
    /\ Tracked(watcher) = {}

(***************************************************************************)
(* The delivery of signals to the loop (SpecB).                            *)
(***************************************************************************)
\* _handle_signal(sig) is called in this step.
Delivery(sig) == SignalArrives(sig) \/ LateSignal(sig)

\* The loop takes the handle of a signal handler from its queue.
SignalRuns ==
    /\ ready # <<>>
    /\ Head(ready).cb \in {"signal.handler", "signal.detached"}
    /\ ready' = Tail(ready)

\* The callback of the handle at the head of the queue is called.
CallbackCalled ==
    hlog' = [hlog EXCEPT ![-1] =
                Append(@, Event("signal", -1, Head(ready).arg))]

\* What _handle_signal(sig) does: nothing without a handle in the table;
\* with a cancelled one the entry is removed, nothing is queued and no
\* callback is called; otherwise the handle of the registered callback is
\* appended to the loop's queue and nothing else changes.
Delivers(sig) ==
    /\ errors' = errors /\ hlog' = hlog
    /\ IF IsNone(sigs.handlers[sig])
       THEN sigs' = sigs /\ ready' = ready
       ELSE IF Val(sigs.handlers[sig]).cancelled
       THEN /\ IsNone(sigs'.handlers[sig])
            /\ sigs'.installed[sig] # "_handle_signal"
            /\ ready' = Detach(World, sig).ready
            /\ ~Queued("signal.handler", sig)'
       ELSE /\ sigs' = sigs
            /\ ready' = Append(ready,
                    Handle("signal.handler", sig,
                           Some(Val(sigs.handlers[sig]).cb)))

\* Handles leave the queue, and callbacks are called, only when the loop
\* runs a handle, one at a time.
OnlyTheLoopRuns ==
    /\ Len(ready') < Len(ready) => SignalRuns
    /\ hlog' # hlog => SignalRuns /\ CallbackCalled

TransportAssertions ==
    {"AssertionError: _try_finish when finished",
     "AssertionError: _process_exited when returncode is set",
     "AssertionError: _pending_calls is None"}

\* The connection_lost of the pipe protocol of fd is called in this step:
\* it calls _pipe_connection_lost and so _try_finish.
PipeDisconnects(fd) ==
    ~protos[fd].disconnected /\ protos'[fd].disconnected

\* _connect_pipes gets past its assertion in this step.
Flushes == task.pc # "done" /\ task'.pc = "done"

\* C37: no assertion of the subprocess transport fails: _process_exited
\* is run with no returncode set, it and the pipe_connection_lost of every
\* stream call _try_finish with _finished unset, _connect_pipes reaches
\* its flush with the queue of pending calls in place, and none of the
\* three assertion errors is ever raised.
C37_Assertions ==
    /\ [](errors \cap TransportAssertions = {})
    /\ [][Runs("transp._process_exited", -1) =>
            IsNone(transp.returncode) /\ ~transp.finished]_vars
    /\ [][\A fd \in Fds : PipeDisconnects(fd) => ~transp.finished]_vars
    /\ [][Flushes => ~IsNone(transp.pending_calls)]_vars

\* close() was called, the wiring has completed and flushed the pending
\* calls, the exit code has arrived, every stream has disconnected and the
\* transport has finished: each assertion was passed, and nothing was
\* raised.
C37_Witness ==
    /\ transp.closed /\ transp.finished
    /\ task.pc = "done" /\ IsNone(transp.pending_calls)
    /\ ~IsNone(transp.returncode)
    /\ Piped = {STDIN, STDOUT}
    /\ \A fd \in Piped : transp.pipes[fd] /\ protos[fd].disconnected
    /\ Count(hlog[-1], "connection_lost") = 1
    /\ errors = {}

(***************************************************************************)
(* The order in which the handler of a subprocess transport is called      *)
(* (SpecT).                                                                *)
(***************************************************************************)
\* connection_made has been delivered.
Made == Count(hlog[-1], "connection_made") >= 1
\* connection_lost has been delivered.
Lost == Count(hlog[-1], "connection_lost") >= 1
\* A callback of the handler is delivered in this step.
Delivering == hlog' # hlog

\* C36: connection_made is delivered once and before every other
\* callback; when connection_lost is delivered, process_exited and the
\* pipe_connection_lost of every piped stream have been delivered; after
\* connection_lost nothing is delivered; and pipe_connection_lost is the
\* last callback delivered for its stream, after all its data.
C36_Order ==
    /\ [](/\ Count(hlog[-1], "connection_made") <= 1
          /\ hlog[-1] # <<>> => hlog[-1][1].ev = "connection_made"
          /\ \A fd \in Fds :
                /\ hlog[fd] # <<>> => Made
                /\ \A i \in DOMAIN hlog[fd] :
                      hlog[fd][i].ev = "pipe_connection_lost"
                          => i = Len(hlog[fd]))
    /\ [][(Delivering /\ ~Made) =>
            /\ hlog'[-1] = <<Event("connection_made", -1, None)>>
            /\ \A fd \in Fds : hlog'[fd] = <<>>]_vars
    /\ [][(~Lost /\ Lost') =>
            /\ Count(hlog[-1], "process_exited") = 1
            /\ \A fd \in Piped :
                  Count(hlog[fd], "pipe_connection_lost") = 1]_vars
    /\ [][Lost => ~Delivering]_vars

\* The whole life of a transport with two pipes, as its handler saw it:
\* connection_made, process_exited and connection_lost, data and then
\* pipe_connection_lost for stdout, pipe_connection_lost for stdin.
C36_Witness ==
    /\ Piped = {STDIN, STDOUT}
    /\ Len(hlog[-1]) = 3
    /\ hlog[-1][1].ev = "connection_made"
    /\ hlog[-1][2].ev = "process_exited"
    /\ hlog[-1][3].ev = "connection_lost"
    /\ Len(hlog[STDOUT]) = 2
    /\ hlog[STDOUT][1].ev = "pipe_data_received"
    /\ hlog[STDOUT][2].ev = "pipe_connection_lost"
    /\ Len(hlog[STDIN]) = 1
    /\ hlog[STDIN][1].ev = "pipe_connection_lost"

====
